---- MODULE Spec2Model ----
(***************************************************************************)
(* State-machine model of the trading core of haqhal13/GABAGOOL:           *)
(*   - PolicyEngine      (src/src/services/policyEngine.ts)                *)
(*   - PolicyIntegrator  (src/src/services/marketTracker.ts, 607-932)      *)
(*   - ParameterLoader   (src/src/services/paramLoader.ts)                 *)
(*                                                                         *)
(* Units.  Prices, price thresholds and ratios are integers in thousandths *)
(* (0.5 is 500, the literal -0.001 is -1, a ratio of 1.0 is 1000).  Times  *)
(* are milliseconds, thresholds given in seconds are integers in seconds.  *)
(* Shares and costs are whole numbers.  Floating-point rounding is not     *)
(* modelled.  An optional value (a parameter section, an argument that may *)
(* be undefined) is a tuple of length 0 or 1; an object is a record whose  *)
(* DOMAIN holds exactly the properties that are defined.                   *)
(***************************************************************************)
EXTENDS Integers, Sequences, FiniteSets, TLC

\* JavaScript null for a nullable number or timestamp.
NULL == -999999

Markets == {"BTC_15m", "ETH_15m"}

IGNORE_ENTRY_BANDS == TRUE

maxHistoryLength == 1000
maxRecentTrades == 100

\* sizeForTrade's "return 1.0": the default size.
DefaultSize == 1

\* 1 / eps for eps = 1e-6.
EpsInv == 1000000

Abs(x) == IF x < 0 THEN -x ELSE x
Max(a, b) == IF a >= b THEN a ELSE b
Has(r, f) == f \in DOMAIN r
Opt(r, f) == IF f \in DOMAIN r THEN <<r[f]>> ELSE <<>>
EmptyObj == [x \in {} |-> 0]

(***************************************************************************)
(* PolicyEngine.computeFeatures.  The volatility_5s / volatility_30s       *)
(* fields are left out: no operation of the engine or the integrator reads *)
(* them.                                                                   *)
(***************************************************************************)
\* The place of history[i] after a stable sort by timestamp.
RankByTs(history, i) ==
    Cardinality({j \in 1..Len(history) :
                    \/ history[j].timestamp < history[i].timestamp
                    \/ history[j].timestamp = history[i].timestamp /\ j <= i})

\* [...history].sort((a, b) => a.timestamp - b.timestamp), a stable sort:
\* it leaves an array that is in order as it is.
SortByTs(history) ==
    IF \A i \in 1..(Len(history) - 1) : history[i].timestamp <= history[i + 1].timestamp
    THEN history
    ELSE [k \in 1..Len(history) |->
             history[CHOOSE i \in 1..Len(history) : RankByTs(history, i) = k]]

\* The smallest |h.timestamp - targetTs| over the history.
MinDiff(sorted, targetTs) ==
    CHOOSE d \in {Abs(sorted[i].timestamp - targetTs) : i \in 1..Len(sorted)} :
        \A i \in 1..Len(sorted) : d <= Abs(sorted[i].timestamp - targetTs)

\* The loop keeps the first point at the smallest distance (diff < minDiff).
findClosest(sorted, targetTs) ==
    sorted[CHOOSE i \in 1..Len(sorted) :
              /\ Abs(sorted[i].timestamp - targetTs) = MinDiff(sorted, targetTs)
              /\ \A j \in 1..(i - 1) :
                     Abs(sorted[j].timestamp - targetTs) # MinDiff(sorted, targetTs)]

\* One iteration of [1, 5, 30].forEach: <<within 2x window, deltaUp, deltaDown>>.
WindowDelta(state, sorted, seconds) ==
    LET windowTs == state.timestamp - (seconds * 1000)
        past == findClosest(sorted, windowTs)
    IN  IF Abs(past.timestamp - windowTs) < seconds * 2000
        THEN <<TRUE, state.up_px - past.up_px, state.down_px - past.down_px>>
        ELSE <<FALSE, 0, 0>>

computeFeatures(state, history) ==
    LET base == [distance_from_50 |-> Abs(state.up_px - 500)]
    IN  IF Len(history) = 0 THEN base
        ELSE
          LET sorted == SortByTs(history)
              d1 == WindowDelta(state, sorted, 1)
              d5 == WindowDelta(state, sorted, 5)
              d30 == WindowDelta(state, sorted, 30)
              f1 == IF d1[1]
                    THEN [delta_1s_up_px |-> d1[2], delta_1s_down_px |-> d1[3],
                          delta_1s_side_px |-> d1[2]]
                    ELSE EmptyObj
              f5 == IF d5[1]
                    THEN [delta_5s_up_px |-> d5[2], delta_5s_down_px |-> d5[3],
                          delta_5s_side_px |-> d5[2]]
                    ELSE EmptyObj
              f30 == IF d30[1]
                     THEN [delta_30s_up_px |-> d30[2], delta_30s_down_px |-> d30[3],
                           delta_30s_side_px |-> d30[2]]
                     ELSE EmptyObj
          IN  base @@ f1 @@ f5 @@ f30

\* features.delta_5s_side_px ?? 0
Delta5sSide(features) ==
    IF Has(features, "delta_5s_side_px") THEN features.delta_5s_side_px ELSE 0

\* features.delta_5s_down_px ?? delta5s
Delta5sDown(features) ==
    IF Has(features, "delta_5s_down_px") THEN features.delta_5s_down_px
    ELSE Delta5sSide(features)

(***************************************************************************)
(* PolicyEngine.entrySignal                                                *)
(***************************************************************************)
\* The band test of one side, without the IGNORE_ENTRY_BANDS flag.
InBand(px, lo, hi) == lo # NULL /\ hi # NULL /\ px >= lo /\ px <= hi

\* The momentum / reversion test applied to one side's delta:
\* <<signal, reason>> given the reason used when the mode is none.
ModeCheck(entryParams, delta, bandReason) ==
    IF entryParams.mode = "momentum"
    THEN IF delta < entryParams.momentum_threshold
         THEN <<FALSE, "momentum_not_met">> ELSE <<TRUE, "momentum_met">>
    ELSE IF entryParams.mode = "reversion"
    THEN IF delta > -entryParams.momentum_threshold
         THEN <<FALSE, "reversion_not_met">> ELSE <<TRUE, "reversion_met">>
    ELSE <<TRUE, bandReason>>

entrySignal(state, features, entryParams) ==
    IF entryParams = <<>>
    THEN [should_trade |-> FALSE, side |-> "null", reason |-> "no_entry_params"]
    ELSE
      LET ep == entryParams[1]
          upInBand == IGNORE_ENTRY_BANDS
                      \/ InBand(state.up_px, ep.up_price_min, ep.up_price_max)
          downInBand == IGNORE_ENTRY_BANDS
                        \/ InBand(state.down_px, ep.down_price_min, ep.down_price_max)
          delta5s == Delta5sSide(features)
          up == ModeCheck(ep, delta5s, "up_price_band")
          down == ModeCheck(ep, Delta5sDown(features), "down_price_band")
      IN  IF upInBand /\ up[1]
          THEN [should_trade |-> TRUE, side |-> "UP", reason |-> up[2]]
          ELSE IF downInBand /\ down[1]
          THEN [should_trade |-> TRUE, side |-> "DOWN", reason |-> down[2]]
          ELSE [should_trade |-> FALSE, side |-> "null", reason |-> "no_band_match"]

(***************************************************************************)
(* PolicyEngine.sizeForTrade.  The result is [threw, value]: threw is TRUE *)
(* when the call ends in a TypeError (a property read of undefined).       *)
(***************************************************************************)
Returned(v) == [threw |-> FALSE, value |-> v]
Threw == [threw |-> TRUE, value |-> 0]

\* binEdges[k] with the code's 0-based index.
Edge(binEdges, k) == binEdges[k + 1]

\* A bucket search with left-closed buckets, which would put a price on an
\* interior edge into the bucket above it (the code's buckets are
\* right-closed).
PriceBucketIndexLeftClosed(binEdges, sidePx) ==
    LET n == Len(binEdges)
        hits == {i \in 0..(n - 2) :
                    sidePx >= Edge(binEdges, i) /\ sidePx < Edge(binEdges, i + 1)}
    IN  IF hits # {} THEN CHOOSE i \in hits : \A j \in hits : i <= j
        ELSE IF sidePx <= Edge(binEdges, 0) THEN 0
        ELSE n - 2

\* The for loop over the buckets with its break, then the clamp.
PriceBucketIndex(binEdges, sidePx) ==
    LET n == Len(binEdges)
        hits == {i \in 0..(n - 2) :
                    LET leftEdge == IF i = 0 THEN -1 ELSE Edge(binEdges, i)
                        rightEdge == Edge(binEdges, i + 1)
                    IN  sidePx > leftEdge /\ sidePx <= rightEdge}
    IN  IF hits # {} THEN CHOOSE i \in hits : \A j \in hits : i <= j
        ELSE IF sidePx <= Edge(binEdges, 0) THEN 0
        ELSE n - 2

\* `(-0.001, ${binEdges[1]}]` for bucket 0, `(${L}, ${R}]` otherwise: the
\* label is the pair of the two numbers it prints.
PriceBucketKey(binEdges, idx) ==
    IF idx = 0 THEN <<-1, Edge(binEdges, 1)>>
    ELSE <<Edge(binEdges, idx), Edge(binEdges, idx + 1)>>

\* sorted[Math.floor(sorted.length / 2)] of Object.values(table), sorted ascending.
MedianOf(table) ==
    LET n == Cardinality(DOMAIN table)
        rank == n \div 2
    IN  CHOOSE v \in {table[k] : k \in DOMAIN table} :
            /\ Cardinality({k \in DOMAIN table : table[k] < v}) <= rank
            /\ Cardinality({k \in DOMAIN table : table[k] <= v}) > rank

\* obj.field || {} for a table.
TableOf(sp, f) == IF Has(sp, f) THEN sp[f] ELSE EmptyObj

\* table[key] || 1.0
LookupOrDefault(table, key) ==
    IF key \in DOMAIN table /\ table[key] # 0 THEN table[key] ELSE DefaultSize

\* invUp / Math.max(invDown, eps) <= thr / 1000, for whole shares.
RatioLeq(invUp, invDown, thr) ==
    IF invDown >= 1 THEN invUp * 1000 <= thr * invDown
    ELSE invUp * EpsInv <= thr \div 1000

\* `bucket_${i}`
BucketName(i) == <<"bucket_0", "bucket_1", "bucket_2", "bucket_3", "bucket_4">>[i + 1]

\* An inventory bucket search comparing with < instead of <= (the code uses
\* <=).
InvBucketIndexStrict(thresholds, invUp, invDown) ==
    LET n == Len(thresholds)
        hits == {i \in 0..(n - 2) :
                    IF invDown >= 1 THEN invUp * 1000 < thresholds[i + 2] * invDown
                    ELSE invUp * EpsInv < thresholds[i + 2] \div 1000}
        first == IF hits # {} THEN CHOOSE i \in hits : \A j \in hits : i <= j ELSE 0
    IN  IF ~RatioLeq(invUp, invDown, thresholds[n]) THEN n - 2 ELSE first

InvBucketIndex(thresholds, invUp, invDown) ==
    LET n == Len(thresholds)
        hits == {i \in 0..(n - 2) : RatioLeq(invUp, invDown, thresholds[i + 2])}
        first == IF hits # {} THEN CHOOSE i \in hits : \A j \in hits : i <= j ELSE 0
    IN  IF ~RatioLeq(invUp, invDown, thresholds[n]) THEN n - 2 ELSE first

FallbackChain(sizeTable, sizeTable1d, priceBucketKey) ==
    IF priceBucketKey \in DOMAIN sizeTable1d THEN sizeTable1d[priceBucketKey]
    ELSE IF DOMAIN sizeTable # {} THEN MedianOf(sizeTable)
    ELSE DefaultSize

sizeForTrade(state, features, sizeParams, side, inventory) ==
    IF sizeParams = <<>> THEN Returned(DefaultSize)
    ELSE
      LET sp == sizeParams[1]
          sidePx == IF side = "UP" THEN state.up_px ELSE state.down_px
          binEdges == IF Has(sp, "bin_edges") THEN sp.bin_edges ELSE <<>>
      IN  IF Len(binEdges) < 2 THEN Returned(DefaultSize)
          ELSE
            LET priceBucketIndex == PriceBucketIndex(binEdges, sidePx)
                priceBucketKey == PriceBucketKey(binEdges, priceBucketIndex)
                conditioningVar == IF Has(sp, "conditioning_var")
                                   THEN sp.conditioning_var ELSE "null"
                sizeTable1d == TableOf(sp, "size_table_1d")
                sizeTable == TableOf(sp, "size_table")
            IN  IF conditioningVar = "null"
                THEN IF priceBucketKey \in DOMAIN sizeTable1d
                     THEN Returned(sizeTable1d[priceBucketKey])
                     ELSE IF priceBucketKey \in DOMAIN sizeTable
                     THEN Returned(sizeTable[priceBucketKey])
                     ELSE IF DOMAIN sizeTable # {} THEN Returned(MedianOf(sizeTable))
                     ELSE Returned(DefaultSize)
                ELSE IF conditioningVar = "inventory_imbalance_ratio"
                THEN IF inventory = <<>> THEN Threw   \* inventory.inv_up_shares
                     ELSE
                       LET invUp == inventory[1].inv_up_shares
                           invDown == inventory[1].inv_down_shares
                           thresholds == IF Has(sp, "inventory_bucket_thresholds")
                                         THEN sp.inventory_bucket_thresholds ELSE <<>>
                       IN  IF Len(thresholds) < 2
                           THEN Returned(LookupOrDefault(sizeTable1d, priceBucketKey))
                           ELSE
                             LET invBucketIndex == InvBucketIndex(thresholds, invUp, invDown)
                                 inventoryBuckets == IF Has(sp, "inventory_buckets")
                                                     THEN sp.inventory_buckets ELSE <<>>
                                 inventoryBucketLabel ==
                                     IF invBucketIndex + 1 <= Len(inventoryBuckets)
                                     THEN inventoryBuckets[invBucketIndex + 1]
                                     ELSE BucketName(invBucketIndex)
                                 key2d == <<priceBucketKey[1], priceBucketKey[2],
                                            inventoryBucketLabel>>
                                 others == {j \in 1..Len(inventoryBuckets) :
                                              <<priceBucketKey[1], priceBucketKey[2],
                                                inventoryBuckets[j]>> \in DOMAIN sizeTable}
                             IN  IF key2d \in DOMAIN sizeTable
                                 THEN Returned(sizeTable[key2d])
                                 ELSE IF others # {}
                                 THEN Returned(sizeTable[
                                        <<priceBucketKey[1], priceBucketKey[2],
                                          inventoryBuckets[CHOOSE j \in others :
                                                             \A k \in others : j <= k]>>])
                                 ELSE Returned(FallbackChain(sizeTable, sizeTable1d,
                                                             priceBucketKey))
                ELSE Returned(LookupOrDefault(sizeTable1d, priceBucketKey))

(***************************************************************************)
(* PolicyEngine.inventoryOkAndRebalance: the proposed side, or "null".     *)
(***************************************************************************)
\* An inventoryOkAndRebalance that would steer a trade on the dominant side to
\* the other side (the code only blocks).
inventoryOkAndRebalanceFlipping(inventory, inventoryParams, proposedSide) ==
    IF inventoryParams = <<>> THEN proposedSide
    ELSE
      LET ip == inventoryParams[1]
          up == inventory.inv_up_shares
          down == inventory.inv_down_shares
      IN  IF up + down >= ip.max_total_shares THEN "null"
          ELSE IF proposedSide = "UP" /\ up * 1000 > ip.rebalance_ratio_R * (up + down)
          THEN IF down < ip.max_down_shares THEN "DOWN" ELSE "null"
          ELSE IF proposedSide = "DOWN" /\ down * 1000 > ip.rebalance_ratio_R * (up + down)
          THEN IF up < ip.max_up_shares THEN "UP" ELSE "null"
          ELSE IF proposedSide = "UP" /\ up >= ip.max_up_shares THEN "null"
          ELSE IF proposedSide = "DOWN" /\ down >= ip.max_down_shares THEN "null"
          ELSE proposedSide

inventoryOkAndRebalance(inventory, inventoryParams, proposedSide) ==
    IF inventoryParams = <<>> THEN proposedSide
    ELSE
      LET ip == inventoryParams[1]
          total == inventory.inv_up_shares + inventory.inv_down_shares
      IN  IF total >= ip.max_total_shares THEN "null"
          ELSE IF proposedSide = "UP" /\ inventory.inv_up_shares >= ip.max_up_shares
          THEN "null"
          ELSE IF proposedSide = "DOWN" /\ inventory.inv_down_shares >= ip.max_down_shares
          THEN "null"
          ELSE proposedSide

(***************************************************************************)
(* PolicyEngine.cadenceOk                                                  *)
(***************************************************************************)
\* recentTradeTimes.filter(ts => ts >= from && ts <= to).length
CountInWindow(times, from, to) ==
    Cardinality({i \in 1..Len(times) : times[i] >= from /\ times[i] <= to})

\* A cadenceOk whose inter-trade test would also block at exactly
\* min_inter_trade_ms (the code compares with <).
cadenceOkInclusive(lastTradeTs, recentTradeTimes, cadenceParams, currentTs) ==
    IF cadenceParams = <<>> THEN TRUE
    ELSE
      LET cp == cadenceParams[1]
      IN  IF /\ lastTradeTs # NULL
             /\ cp.min_inter_trade_ms > 0
             /\ currentTs - lastTradeTs <= cp.min_inter_trade_ms
          THEN FALSE
          ELSE IF CountInWindow(recentTradeTimes, currentTs - 1000, currentTs)
                    >= cp.max_trades_per_sec
          THEN FALSE
          ELSE IF CountInWindow(recentTradeTimes, currentTs - 60000, currentTs)
                    >= cp.max_trades_per_min
          THEN FALSE
          ELSE TRUE

cadenceOk(lastTradeTs, recentTradeTimes, cadenceParams, currentTs) ==
    IF cadenceParams = <<>> THEN TRUE
    ELSE
      LET cp == cadenceParams[1]
      IN  IF /\ lastTradeTs # NULL
             /\ cp.min_inter_trade_ms > 0
             /\ currentTs - lastTradeTs < cp.min_inter_trade_ms
          THEN FALSE
          ELSE IF CountInWindow(recentTradeTimes, currentTs - 1000, currentTs)
                    >= cp.max_trades_per_sec
          THEN FALSE
          ELSE IF CountInWindow(recentTradeTimes, currentTs - 60000, currentTs)
                    >= cp.max_trades_per_min
          THEN FALSE
          ELSE TRUE

(***************************************************************************)
(* PolicyEngine.selectSideWhenBothValid / inventoryFirstTieBreak           *)
(***************************************************************************)
\* invUp / Math.max(invDown, eps) < thr / 1000, for whole shares.
RatioLt(invUp, invDown, thr) ==
    IF invDown >= 1 THEN invUp * 1000 < thr * invDown
    ELSE invUp * EpsInv < -((-thr) \div 1000)

\* upDistance > downDistance ? 'UP' : 'DOWN'
HigherEdgeSide(state) ==
    IF Abs(state.up_px - 500) > Abs(state.down_px - 500) THEN "UP" ELSE "DOWN"

inventoryFirstTieBreak(state, inventory) ==
    LET total == inventory.inv_up_shares + inventory.inv_down_shares
    IN  IF total <= 0 THEN HigherEdgeSide(state)
        ELSE IF ~RatioLeq(inventory.inv_up_shares, inventory.inv_down_shares, 1000)
        THEN "DOWN"
        ELSE IF RatioLt(inventory.inv_up_shares, inventory.inv_down_shares, 1000)
        THEN "UP"
        ELSE HigherEdgeSide(state)

selectSideWhenBothValid(state, features, inventory, sideSelectionParams, entrySignalUp, entrySignalDown) ==
    IF ~entrySignalUp /\ ~entrySignalDown THEN "null"
    ELSE IF entrySignalUp /\ ~entrySignalDown THEN "UP"
    ELSE IF entrySignalDown /\ ~entrySignalUp THEN "DOWN"
    ELSE IF sideSelectionParams = <<>> THEN inventoryFirstTieBreak(state, inventory)
    ELSE
      LET ssp == sideSelectionParams[1]
          mode == ssp.mode
      IN  IF mode = "mixed" \/ (Has(ssp, "confidence_gap") /\ ssp.confidence_gap < 100)
          THEN inventoryFirstTieBreak(state, inventory)
          ELSE IF mode = "inventory_driven" THEN inventoryFirstTieBreak(state, inventory)
          ELSE IF mode = "edge_driven" THEN HigherEdgeSide(state)
          ELSE IF mode = "momentum_driven"
          THEN IF Delta5sSide(features) > 1 THEN "UP"
               ELSE IF Delta5sSide(features) < -1 THEN "DOWN"
               ELSE inventoryFirstTieBreak(state, inventory)
          ELSE IF mode = "alternating" THEN inventoryFirstTieBreak(state, inventory)
          ELSE IF mode = "fixed_preference"
          THEN IF Has(ssp, "preferred_side") /\ ssp.preferred_side # "null"
               THEN ssp.preferred_side ELSE "UP"
          ELSE inventoryFirstTieBreak(state, inventory)

(***************************************************************************)
(* PolicyEngine.simulateFillPrice                                          *)
(***************************************************************************)
\* executionParams.field || 0
BiasOf(xp, f) == IF Has(xp, f) /\ xp[f] # NULL THEN xp[f] ELSE 0

simulateFillPrice(side, snapshotSidePx, executionParams) ==
    IF executionParams = <<>> THEN snapshotSidePx
    ELSE
      LET xp == executionParams[1]
          modelType == xp.model_type
      IN  IF modelType = "snapshot_price" THEN snapshotSidePx
          ELSE IF modelType = "fixed_slippage" THEN snapshotSidePx + xp.slippage_offset
          ELSE IF modelType = "mid_price"
          THEN snapshotSidePx + BiasOf(xp, "fill_bias_median")
          ELSE IF modelType = "worst_case"
          THEN snapshotSidePx + (IF BiasOf(xp, "fill_bias_p75") # 0
                                 THEN BiasOf(xp, "fill_bias_p75")
                                 ELSE BiasOf(xp, "fill_bias_median"))
          ELSE snapshotSidePx

(***************************************************************************)
(* PolicyEngine.checkCooldown, checkRiskLimits, checkDataQuality,          *)
(* shouldResetInventory                                                    *)
(***************************************************************************)
\* Math.max(inv_up / total, inv_down / total) > thr / 1000, for total > 0.
MaxShareGt(inventory, thr) ==
    LET total == inventory.inv_up_shares + inventory.inv_down_shares
    IN  Max(inventory.inv_up_shares, inventory.inv_down_shares) * 1000 > thr * total

checkCooldown(lastTradeTs, currentTs, features, inventory, cooldownParams) ==
    IF cooldownParams = <<>> THEN TRUE
    ELSE
      LET cd == cooldownParams[1]
          total == inventory.inv_up_shares + inventory.inv_down_shares
      IN  IF /\ cd.has_time_cooldown
             /\ lastTradeTs # NULL
             /\ currentTs - lastTradeTs < cd.time_cooldown_seconds * 1000
          THEN FALSE
          ELSE IF /\ cd.price_move_threshold # NULL
                  /\ lastTradeTs # NULL
                  /\ currentTs - lastTradeTs < 5000
                  /\ Abs(Delta5sSide(features)) < cd.price_move_threshold
          THEN FALSE
          ELSE IF /\ cd.has_inventory_lockout
                  /\ cd.inventory_lockout_threshold # NULL
                  /\ total > 0
                  /\ MaxShareGt(inventory, cd.inventory_lockout_threshold)
          THEN FALSE
          ELSE TRUE

\* A session limit that lets the trade count pass the maximum by one (the
\* code does not).
checkRiskLimitsStrict(tradesThisSession, inventory, riskParams) ==
    IF riskParams = <<>> THEN TRUE
    ELSE
      LET rp == riskParams[1]
          total == inventory.inv_up_shares + inventory.inv_down_shares
      IN  IF /\ rp.max_trades_per_session # NULL
             /\ tradesThisSession > rp.max_trades_per_session
          THEN FALSE
          ELSE IF total > 0 /\ MaxShareGt(inventory, rp.max_imbalance_ratio)
          THEN FALSE
          ELSE IF inventory.inv_up_shares > rp.max_exposure_up_shares THEN FALSE
          ELSE IF inventory.inv_down_shares > rp.max_exposure_down_shares THEN FALSE
          ELSE TRUE

checkRiskLimits(tradesThisSession, inventory, riskParams) ==
    IF riskParams = <<>> THEN TRUE
    ELSE
      LET rp == riskParams[1]
          total == inventory.inv_up_shares + inventory.inv_down_shares
      IN  IF /\ rp.max_trades_per_session # NULL
             /\ tradesThisSession >= rp.max_trades_per_session
          THEN FALSE
          ELSE IF total > 0 /\ MaxShareGt(inventory, rp.max_imbalance_ratio)
          THEN FALSE
          ELSE IF inventory.inv_up_shares > rp.max_exposure_up_shares THEN FALSE
          ELSE IF inventory.inv_down_shares > rp.max_exposure_down_shares THEN FALSE
          ELSE TRUE

checkDataQuality(state, lastPriceState, qualityFilterParams) ==
    IF qualityFilterParams = <<>> THEN TRUE
    ELSE
      LET qp == qualityFilterParams[1]
          deviation == Abs(state.up_px + state.down_px - 1000)
      IN  IF deviation > qp.max_price_sum_deviation THEN FALSE
          ELSE IF lastPriceState = <<>> THEN TRUE
          ELSE
            LET last == lastPriceState[1]
                upGap == Abs(state.up_px - last.up_px)
                downGap == Abs(state.down_px - last.down_px)
            IN  IF state.timestamp - last.timestamp
                     > qp.timestamp_jump_threshold_seconds * 1000
                THEN FALSE
                ELSE IF Max(upGap, downGap) > qp.price_gap_threshold THEN FALSE
                ELSE TRUE

shouldResetInventory(lastActivityTs, currentTs, resetParams) ==
    IF resetParams = <<>> THEN FALSE
    ELSE
      LET rs == resetParams[1]
      IN  IF lastActivityTs = NULL THEN rs.resets_on_market_switch
          ELSE IF /\ rs.resets_on_inactivity
                  /\ currentTs - lastActivityTs > rs.inactivity_threshold_hours * 3600000
          THEN TRUE
          ELSE FALSE

(***************************************************************************)
(* State                                                                   *)
(***************************************************************************)
VARIABLES
    \* PolicyIntegrator (marketTracker.ts 607-624); a Map is a function whose
    \* DOMAIN is the set of keys it has.
    priceHistory,        \* policyState.priceHistory
    inventory,           \* policyState.inventory
    lastTradeTime,       \* policyState.lastTradeTime
    recentTradeTimes,    \* policyState.recentTradeTimes
    decisionIdCounter,   \* policyState.decisionIdCounter
    tradesPerSession,    \* tradesPerSession
    lastPriceState,      \* lastPriceState
    \* The trading loop around the integrator (HOW_TO_APPLY_PARAMS_TO_PAPER.md)
    now,                 \* Date.now()
    marketParams,        \* the MarketParams the loop passes to shouldTrade
    decision,            \* market -> the result of its latest shouldTrade call
    pending,             \* markets whose latest decision permits a trade not yet recorded
    \* ParameterLoader (paramLoader.ts 74-78) and the parameter file it reads
    params,              \* this.params: <<>> is null, <<doc>> a loaded document
    lastModified,        \* this.lastModified
    pollInterval,        \* this.pollInterval is set (the timer runs)
    listeners,           \* this.listeners, in registration order
    file,                \* the file at paramsPath: exists, content, mtimeMs
    caught,              \* history: a listener's error has been caught by a poll tick
    \* History of the run, read by the properties only
    allTrades,           \* market -> every recorded trade timestamp, never evicted
    lastOp               \* the operation that produced this state, with its arguments

policyVars == <<priceHistory, inventory, lastTradeTime, recentTradeTimes,
                decisionIdCounter, tradesPerSession, lastPriceState>>
loopVars == <<now, marketParams, decision, pending>>
loaderVars == <<params, lastModified, pollInterval, listeners, file, caught>>
vars == <<policyVars, loopVars, loaderVars, allTrades, lastOp>>

\* map.get(k) for a key the map has, else the given default.
GetOr(map, k, default) == IF k \in DOMAIN map THEN map[k] ELSE default
\* map.set(k, v)
MapSet(map, k, v) == (k :> v) @@ map
\* map.delete(k)
MapDelete(map, k) == [x \in (DOMAIN map) \ {k} |-> map[x]]

\* this.policyState.lastTradeTime.get(market) || null : 0 is falsy.
LastTradeTs(ltt, market) ==
    IF market \in DOMAIN ltt /\ ltt[market] # 0 THEN ltt[market] ELSE NULL

(***************************************************************************)
(* PolicyIntegrator.updatePriceHistory / getInventory / updateInventory /  *)
(* recordTradeTime                                                         *)
(***************************************************************************)
\* push, then shift once when longer than max.
\* A bounded push that, when the sequence is full, drops the entry that
\* arrives instead of the oldest one (the code shifts the oldest out).
PushTrimDropNewest(seq, x, max) == IF Len(seq) >= max THEN seq ELSE Append(seq, x)

PushTrim(seq, x, max) ==
    LET pushed == Append(seq, x)
    IN  IF Len(pushed) > max THEN Tail(pushed) ELSE pushed

updatePriceHistory(ph, market, timestamp, upPx, downPx) ==
    MapSet(ph, market,
           PushTrim(GetOr(ph, market, <<>>),
                    [timestamp |-> timestamp, up_px |-> upPx, down_px |-> downPx],
                    maxHistoryLength))

ZeroInventory == [inv_up_shares |-> 0, inv_down_shares |-> 0]

\* getInventory's effect on the map: a missing market gets the zero inventory.
getInventory(inv, market) ==
    IF market \in DOMAIN inv THEN inv ELSE MapSet(inv, market, ZeroInventory)

RECURSIVE Gcd(_, _)
Gcd(a, b) == IF b = 0 THEN a ELSE Gcd(b, a % b)

\* The quotient num / den (den > 0) as a fraction in lowest terms.
Frac(num, den) == LET g == Gcd(num, den) IN <<num \div g, den \div g>>

\* (inventory.avg_cost_x || 0) * shares, a whole number: the cost paid so far.
OldCost(invRec, field, shares) ==
    IF Has(invRec, field) THEN (invRec[field][1] * shares) \div invRec[field][2] ELSE 0

\* An updateInventory that takes the old cost after adding the shares.
updateInventoryCostAfterAdd(inv, market, side, shares, cost) ==
    LET inv1 == getInventory(inv, market)
        rec == inv1[market]
    IN  IF side = "UP"
        THEN LET newShares == rec.inv_up_shares + shares
                 oldCost == OldCost(rec, "avg_cost_up", newShares)
             IN  MapSet(inv1, market,
                        [inv_up_shares |-> newShares,
                         avg_cost_up |-> Frac(oldCost + cost, newShares)]
                        @@ rec)
        ELSE LET newShares == rec.inv_down_shares + shares
                 oldCost == OldCost(rec, "avg_cost_down", newShares)
             IN  MapSet(inv1, market,
                        [inv_down_shares |-> newShares,
                         avg_cost_down |-> Frac(oldCost + cost, newShares)]
                        @@ rec)

updateInventory(inv, market, side, shares, cost) ==
    LET inv1 == getInventory(inv, market)
        rec == inv1[market]
    IN  IF side = "UP"
        THEN LET oldCost == OldCost(rec, "avg_cost_up", rec.inv_up_shares)
                 newShares == rec.inv_up_shares + shares
             IN  MapSet(inv1, market,
                        [inv_up_shares |-> newShares,
                         avg_cost_up |-> Frac(oldCost + cost, newShares)]
                        @@ rec)
        ELSE LET oldCost == OldCost(rec, "avg_cost_down", rec.inv_down_shares)
                 newShares == rec.inv_down_shares + shares
             IN  MapSet(inv1, market,
                        [inv_down_shares |-> newShares,
                         avg_cost_down |-> Frac(oldCost + cost, newShares)]
                        @@ rec)

recordTradeTime(rtt, market, timestamp) ==
    MapSet(rtt, market, PushTrim(GetOr(rtt, market, <<>>), timestamp, maxRecentTrades))

(***************************************************************************)
(* PolicyIntegrator.shouldTrade                                            *)
(***************************************************************************)
\* The place where shouldTrade ends, given the outcome of each check in the
\* order of its early returns (724, 755, 767, 813, 826, 836, 846, 866).
\* A pipeline that consults the inventory gate before the risk gate.
PipelineExitInventoryFirst(qualityOk, cooldownOk, cadenceIsOk, entryOk, riskOk, sizeThrew, inventoryIsOk) ==
    IF ~qualityOk THEN "quality"
    ELSE IF ~cooldownOk THEN "cooldown"
    ELSE IF ~cadenceIsOk THEN "cadence"
    ELSE IF ~entryOk THEN "entry"
    ELSE IF sizeThrew THEN "size_threw"
    ELSE IF ~inventoryIsOk THEN "inventory"
    ELSE IF ~riskOk THEN "risk"
    ELSE "trade"

PipelineExit(qualityOk, cooldownOk, cadenceIsOk, entryOk, riskOk, sizeThrew, inventoryIsOk) ==
    IF ~qualityOk THEN "quality"
    ELSE IF ~cooldownOk THEN "cooldown"
    ELSE IF ~cadenceIsOk THEN "cadence"
    ELSE IF ~entryOk THEN "entry"
    ELSE IF ~riskOk THEN "risk"
    ELSE IF sizeThrew THEN "size_threw"
    ELSE IF ~inventoryIsOk THEN "inventory"
    ELSE "trade"

NoTrade(reason, decisionId) ==
    [threw |-> FALSE, shouldTrade |-> FALSE, side |-> "null", shares |-> 0,
     reason |-> reason, decisionId |-> decisionId]

\* The call did not return: a TypeError propagates to the caller.
ThrownDecision(decisionId) ==
    [threw |-> TRUE, shouldTrade |-> FALSE, side |-> "null", shares |-> 0,
     reason |-> "TypeError", decisionId |-> decisionId]

\* actualUpSignal / actualDownSignal (778-788)
ActualSignal(mp, side, px) ==
    /\ Has(mp, "entry_params")
    /\ IF side = "UP"
       THEN InBand(px, mp.entry_params.up_price_min, mp.entry_params.up_price_max)
       ELSE InBand(px, mp.entry_params.down_price_min, mp.entry_params.down_price_max)

\* The values shouldTrade reads or builds before its first check (702-751):
\* the reset, the history push, the tape state, the features, the cadence
\* state and the maps as they are after these steps.
TickContext(ph, inv, ltt, rtt, tps, lps, market, timestamp, upPx, downPx, mp) ==
    LET doReset == /\ Has(mp, "reset_params")
                   /\ shouldResetInventory(LastTradeTs(ltt, market), timestamp,
                                           Opt(mp, "reset_params"))
        ph1 == updatePriceHistory(ph, market, timestamp, upPx, downPx)
        state == [timestamp |-> timestamp, up_px |-> upPx, down_px |-> downPx,
                  market |-> market]
    IN  [mp |-> mp,
         market |-> market,
         state |-> state,
         priceHistory |-> ph1,
         inventoryAfterReset |-> IF doReset THEN MapDelete(inv, market) ELSE inv,
         tradesPerSession |-> IF doReset THEN MapDelete(tps, market) ELSE tps,
         lastPriceStateBefore |-> lps,
         lastPrice |-> Opt(lps, market),
         features |-> computeFeatures(state, ph1[market]),
         lastTradeTs |-> LastTradeTs(ltt, market),
         recentTrades |-> GetOr(rtt, market, <<>>)]

\* const inventory = this.getInventory(market)
InventoryOf(ctx) == getInventory(ctx.inventoryAfterReset, ctx.market)[ctx.market]

\* selectedSide (793-810)
SelectedSide(ctx, entry, actualUpSignal, actualDownSignal) ==
    IF actualUpSignal /\ actualDownSignal /\ Has(ctx.mp, "side_selection_params")
    THEN selectSideWhenBothValid(ctx.state, ctx.features, InventoryOf(ctx),
                                 Opt(ctx.mp, "side_selection_params"),
                                 actualUpSignal, actualDownSignal)
    ELSE IF actualUpSignal THEN "UP"
    ELSE IF actualDownSignal THEN "DOWN"
    ELSE entry.side

\* The outcome of every check of the pipeline on this tick, each evaluated
\* as the code evaluates it when the tick reaches it.
GateOutcomes(ctx) ==
    [qualityOk |->
        \/ ~Has(ctx.mp, "quality_filter_params")
        \/ checkDataQuality(ctx.state, ctx.lastPrice, Opt(ctx.mp, "quality_filter_params")),
     cooldownOk |->
        \/ ~Has(ctx.mp, "cooldown_params")
        \/ checkCooldown(ctx.lastTradeTs, ctx.state.timestamp, ctx.features,
                         InventoryOf(ctx), Opt(ctx.mp, "cooldown_params")),
     cadenceOk |->
        cadenceOk(ctx.lastTradeTs, ctx.recentTrades, Opt(ctx.mp, "cadence_params"),
                  ctx.state.timestamp),
     actualUp |-> ActualSignal(ctx.mp, "UP", ctx.state.up_px),
     actualDown |-> ActualSignal(ctx.mp, "DOWN", ctx.state.down_px),
     entry |-> entrySignal(ctx.state, ctx.features, Opt(ctx.mp, "entry_params")),
     riskOk |->
        \/ ~Has(ctx.mp, "risk_params")
        \/ checkRiskLimits(GetOr(ctx.tradesPerSession, ctx.market, 0), InventoryOf(ctx),
                           Opt(ctx.mp, "risk_params"))]

\* The decision and the state after the call, once the place where the call
\* ends is known.
Conclude(ctx, g, selectedSide, size, finalSide, exit, decisionId) ==
    [exit |-> exit,
     qualityOk |-> g.qualityOk,
     cooldownOk |-> g.cooldownOk,
     cadenceOk |-> g.cadenceOk,
     entryOk |-> (g.entry.should_trade /\ selectedSide # "null"),
     riskOk |-> g.riskOk,
     inventoryOk |-> (finalSide # "null"),
     actualUp |-> g.actualUp,
     actualDown |-> g.actualDown,
     decision |->
        IF exit = "quality" THEN NoTrade("data_quality_filter_failed", decisionId)
        ELSE IF exit = "cooldown" THEN NoTrade("cooldown_blocked", decisionId)
        ELSE IF exit = "cadence" THEN NoTrade("cadence_blocked", decisionId)
        ELSE IF exit = "entry" THEN NoTrade(g.entry.reason, decisionId)
        ELSE IF exit = "risk" THEN NoTrade("risk_limit_exceeded", decisionId)
        ELSE IF exit = "size_threw" THEN ThrownDecision(decisionId)
        ELSE IF exit = "inventory" THEN NoTrade("inventory_limit_exceeded", decisionId)
        ELSE [threw |-> FALSE, shouldTrade |-> TRUE, side |-> finalSide,
              shares |-> size.value, reason |-> g.entry.reason,
              decisionId |-> decisionId,
              fillPrice |-> simulateFillPrice(finalSide,
                                IF finalSide = "UP" THEN ctx.state.up_px
                                ELSE ctx.state.down_px,
                                Opt(ctx.mp, "execution_params"))],
     priceHistory |-> ctx.priceHistory,
     inventory |-> IF exit = "quality" THEN ctx.inventoryAfterReset
                   ELSE getInventory(ctx.inventoryAfterReset, ctx.market),
     tradesPerSession |-> ctx.tradesPerSession,
     lastPriceState |-> IF exit = "quality" THEN ctx.lastPriceStateBefore
                        ELSE MapSet(ctx.lastPriceStateBefore, ctx.market,
                                    [up_px |-> ctx.state.up_px,
                                     down_px |-> ctx.state.down_px,
                                     timestamp |-> ctx.state.timestamp]),
     decisionIdCounter |-> decisionId]

\* Sizing and the inventory gate for the selected side (835-843).  The call
\* sizeForTrade(state, features, marketParams.size_params, selectedSide)
\* passes no inventory argument.
SizeAndGate(ctx, g, selectedSide, decisionId) ==
    LET entryOk == g.entry.should_trade /\ selectedSide # "null"
        size == IF entryOk
                THEN sizeForTrade(ctx.state, ctx.features, Opt(ctx.mp, "size_params"),
                                  selectedSide, <<>>)
                ELSE Returned(0)
        finalSide == IF entryOk
                     THEN inventoryOkAndRebalance(InventoryOf(ctx),
                                                  Opt(ctx.mp, "inventory_params"),
                                                  selectedSide)
                     ELSE "null"
    IN  Conclude(ctx, g, selectedSide, size, finalSide,
                 PipelineExit(g.qualityOk, g.cooldownOk, g.cadenceOk, entryOk, g.riskOk,
                              size.threw, finalSide # "null"),
                 decisionId)

Decide(ctx, g, decisionId) ==
    SizeAndGate(ctx, g, SelectedSide(ctx, g.entry, g.actualUp, g.actualDown), decisionId)

\* Everything one shouldTrade call computes, from the state before the call:
\* the outcome of each check, the decision and the state after the call.
shouldTradeOutcome(ctx, decisionId) == Decide(ctx, GateOutcomes(ctx), decisionId)

shouldTradeResult(ph, inv, ltt, rtt, counter, tps, lps, market, timestamp, upPx, downPx, mp) ==
    shouldTradeOutcome(
        TickContext(ph, inv, ltt, rtt, tps, lps, market, timestamp, upPx, downPx, mp),
        counter + 1)

(***************************************************************************)
(* Bounds and inputs of the model                                          *)
(***************************************************************************)
MaxTicks == 4
StartTime == 1000
MaxTime == 4000
ClockSteps == {1000, 3000}
PricePairs == {<<500, 500>>, <<300, 700>>}
\* The market the single-market specifications tick.
LoopMarkets == {"BTC_15m"}

(***************************************************************************)
(* Parameter sections and the MarketParams the loop may hold               *)
(***************************************************************************)
EntryNone ==
    [up_price_min |-> 400, up_price_max |-> 600,
     down_price_min |-> 400, down_price_max |-> 600,
     momentum_window_s |-> 5, momentum_threshold |-> 100, mode |-> "none"]
EntryMomentum == [EntryNone EXCEPT !.mode = "momentum"]
EntryUpOnly == [EntryNone EXCEPT !.down_price_min = NULL, !.down_price_max = NULL]

Size1D ==
    [bin_edges |-> <<0, 500, 1000>>,
     size_table |-> EmptyObj,
     size_table_1d |-> (<<-1, 500>> :> 10) @@ (<<500, 1000>> :> 20),
     conditioning_var |-> "null"]
SizeZero == [Size1D EXCEPT !.size_table_1d = (<<-1, 500>> :> 0) @@ (<<500, 1000>> :> 20)]
Size2D ==
    [bin_edges |-> <<0, 500, 1000>>,
     size_table |-> (<<-1, 500, "bucket_0">> :> 5) @@ (<<-1, 500, "bucket_1">> :> 15)
                    @@ (<<500, 1000, "bucket_0">> :> 10) @@ (<<500, 1000, "bucket_1">> :> 20),
     size_table_1d |-> (<<-1, 500>> :> 12) @@ (<<500, 1000>> :> 18),
     conditioning_var |-> "inventory_imbalance_ratio",
     inventory_bucket_thresholds |-> <<0, 1000, 2000>>,
     inventory_buckets |-> <<"bucket_0", "bucket_1">>]

InventoryCaps ==
    [rebalance_ratio_R |-> 750, max_up_shares |-> 15, max_down_shares |-> 15,
     max_total_shares |-> 25]
Cadence ==
    [min_inter_trade_ms |-> 1000, p50_inter_trade_ms |-> 2000, p95_inter_trade_ms |-> 9000,
     max_trades_per_sec |-> 1, max_trades_per_min |-> 2]
Cooldown ==
    [has_time_cooldown |-> TRUE, time_cooldown_seconds |-> 2,
     price_move_threshold |-> NULL,
     has_inventory_lockout |-> FALSE, inventory_lockout_threshold |-> NULL]
Risk ==
    [max_trades_per_session |-> 1, max_imbalance_ratio |-> 1000,
     max_exposure_up_shares |-> 100, max_exposure_down_shares |-> 100]
Quality ==
    [max_price_sum_deviation |-> 20, timestamp_jump_threshold_seconds |-> 2,
     price_gap_threshold |-> 100]

\* Only the four sections getMarketParams returns.
ParamsBasic ==
    [entry_params |-> EntryNone, size_params |-> Size1D,
     inventory_params |-> InventoryCaps, cadence_params |-> Cadence]
ParamsUpOnly == [ParamsBasic EXCEPT !.entry_params = EntryUpOnly]
ParamsSizeZero == [entry_params |-> EntryNone, size_params |-> SizeZero]
ParamsSize2D ==
    [entry_params |-> EntryNone, size_params |-> Size2D, inventory_params |-> InventoryCaps]
\* Every gate configured.
ParamsFull ==
    [entry_params |-> EntryNone, size_params |-> Size1D,
     inventory_params |-> [InventoryCaps EXCEPT !.max_total_shares = 10],
     cadence_params |-> Cadence, cooldown_params |-> Cooldown, risk_params |-> Risk,
     quality_filter_params |-> Quality]
ParamsMomentum ==
    [entry_params |-> EntryMomentum, size_params |-> Size1D,
     inventory_params |-> [InventoryCaps EXCEPT !.max_total_shares = 10],
     risk_params |-> Risk]

TestParams == {ParamsBasic, ParamsUpOnly, ParamsSizeZero, ParamsSize2D, ParamsFull,
               ParamsMomentum}

(***************************************************************************)
(* Actions of the trading loop                                             *)
(***************************************************************************)
\* decision = policyIntegrator.shouldTrade(marketKey, Date.now(), up, down, marketParams)
ShouldTrade(market, upPx, downPx) ==
    /\ \E r \in {shouldTradeResult(priceHistory, inventory, lastTradeTime, recentTradeTimes,
                                     decisionIdCounter, tradesPerSession, lastPriceState,
                                     market, now, upPx, downPx, marketParams[market])} :
           /\ priceHistory' = r.priceHistory
           /\ inventory' = r.inventory
           /\ tradesPerSession' = r.tradesPerSession
           /\ lastPriceState' = r.lastPriceState
           /\ decisionIdCounter' = r.decisionIdCounter
           /\ decision' = MapSet(decision, market, r.decision)
           /\ pending' = IF r.decision.shouldTrade THEN pending \cup {market}
                         ELSE pending \ {market}
           /\ lastOp' = [op |-> "shouldTrade", market |-> market, timestamp |-> now,
                         up_px |-> upPx, down_px |-> downPx,
                         prevPrice |-> Opt(lastPriceState, market),
                         qualityOk |-> r.qualityOk, cooldownOk |-> r.cooldownOk,
                         cadenceOk |-> r.cadenceOk, entryOk |-> r.entryOk,
                         riskOk |-> r.riskOk, inventoryOk |-> r.inventoryOk,
                         actualUp |-> r.actualUp, actualDown |-> r.actualDown]
    /\ UNCHANGED <<lastTradeTime, recentTradeTimes, now, marketParams, allTrades, loaderVars>>

\* PolicyIntegrator.recordTradeExecution(market, timestamp, side, shares, cost)
recordTradeExecution(market, timestamp, side, shares, cost) ==
    /\ inventory' = updateInventory(inventory, market, side, shares, cost)
    /\ recentTradeTimes' = recordTradeTime(recentTradeTimes, market, timestamp)
    /\ lastTradeTime' = MapSet(lastTradeTime, market, timestamp)
    /\ tradesPerSession' = MapSet(tradesPerSession, market,
                                  GetOr(tradesPerSession, market, 0) + 1)
    /\ allTrades' = MapSet(allTrades, market, Append(GetOr(allTrades, market, <<>>), timestamp))
    /\ lastOp' = [op |-> "recordTradeExecution", market |-> market,
                  timestamp |-> timestamp, side |-> side, shares |-> shares,
                  cost |-> cost]
    /\ UNCHANGED <<priceHistory, decisionIdCounter, lastPriceState, loaderVars>>

\* The loop records the trade its latest decision for the market permits:
\* if (decision.shouldTrade && decision.side && decision.shares > 0)
\*     recordTradeExecution(marketKey, Date.now(), decision.side, decision.shares, cost)
RecordPermitted(market) ==
    /\ market \in pending
    /\ decision[market].shares > 0
    /\ recordTradeExecution(market, now, decision[market].side, decision[market].shares,
                            decision[market].shares)
    /\ pending' = pending \ {market}
    /\ UNCHANGED <<now, marketParams, decision>>

\* Time passes.
Advance(d) ==
    /\ now + d <= MaxTime
    /\ now' = now + d
    /\ lastOp' = [op |-> "advance"]
    /\ UNCHANGED <<policyVars, marketParams, decision, pending, allTrades, loaderVars>>


(***************************************************************************)
(* ParameterLoader (paramLoader.ts)                                        *)
(***************************************************************************)
Sections == {"entry_params", "size_params", "inventory_params", "cadence_params"}
\* const marketKeys = ['BTC_15m', 'ETH_15m', 'BTC_1h', 'ETH_1h']
FileMarketKeys == {"BTC_15m", "ETH_15m", "BTC_1h", "ETH_1h"}

\* The characters of each market key a caller passes; String.includes is
\* decided on them.
Spelling ==
    ("BTC_15m" :> <<"B", "T", "C", "_", "1", "5", "m">>)
    @@ ("ETH_15m" :> <<"E", "T", "H", "_", "1", "5", "m">>)
    @@ ("BTC-UpDown-15" :> <<"B", "T", "C", "-", "U", "p", "D", "o", "w", "n", "-", "1", "5">>)
    @@ ("btc_15m" :> <<"b", "t", "c", "_", "1", "5", "m">>)
    @@ ("ETH-UpDown-1h" :> <<"E", "T", "H", "-", "U", "p", "D", "o", "w", "n", "-", "1", "h">>)
    @@ ("Bitcoin 15" :> <<"B", "i", "t", "c", "o", "i", "n", " ", "1", "5">>)
    @@ ("eth 1 hour" :> <<"e", "t", "h", " ", "1", " ", "h", "o", "u", "r">>)
    @@ ("BTC_1h" :> <<"B", "T", "C", "_", "1", "h">>)
    @@ ("SOL_15m" :> <<"S", "O", "L", "_", "1", "5", "m">>)

\* s.includes(sub)
Includes(s, sub) ==
    \E i \in 0..(Len(s) - Len(sub)) : SubSeq(s, i + 1, i + Len(sub)) = sub

normalizeMarketKey(marketKey) ==
    IF /\ Includes(Spelling[marketKey], <<"B", "T", "C">>)
       /\ Includes(Spelling[marketKey], <<"1", "5">>) THEN "BTC_15m"
    ELSE IF /\ Includes(Spelling[marketKey], <<"E", "T", "H">>)
            /\ Includes(Spelling[marketKey], <<"1", "5">>) THEN "ETH_15m"
    ELSE IF /\ Includes(Spelling[marketKey], <<"B", "T", "C">>)
            /\ \/ Includes(Spelling[marketKey], <<"1", "h">>)
               \/ Includes(Spelling[marketKey], <<"1", " ", "h", "o", "u", "r">>) THEN "BTC_1h"
    ELSE IF /\ Includes(Spelling[marketKey], <<"E", "T", "H">>)
            /\ \/ Includes(Spelling[marketKey], <<"1", "h">>)
               \/ Includes(Spelling[marketKey], <<"1", " ", "h", "o", "u", "r">>) THEN "ETH_1h"
    ELSE marketKey

getDefaultParams == [s \in Sections |-> [per_market |-> EmptyObj]]

\* hasMarketKey && !hasOldFormatKey
isNewFormat(parsed) ==
    /\ \E key \in FileMarketKeys : key \in DOMAIN parsed
    /\ ~("entry_params" \in DOMAIN parsed \/ "size_params" \in DOMAIN parsed)

\* Only market keys are read, and of each market only the four sections.
convertNewToOldFormat(newFormat) ==
    [s \in Sections |->
        [per_market |->
            [m \in {k \in DOMAIN newFormat \cap FileMarketKeys : s \in DOMAIN newFormat[k]}
                |-> newFormat[m][s]]]]

\* Fills in each of the four sections that is missing.
validateParams(doc) ==
    [s \in DOMAIN doc \cup Sections |->
        IF s \in DOMAIN doc THEN doc[s] ELSE [per_market |-> EmptyObj]]

\* JSON.parse(fileContent): throws on text that is not JSON; the text "null"
\* parses to null, on which the `in` of isNewFormat throws.
ParseThrows(content) == content.kind = "garbage"
IsObject(content) == content.kind = "object"

\* loadParams(): what it returns and the fields it leaves behind.  Every
\* failure is caught and answered with the defaults.
loadParams(f, curParams, curLastModified) ==
    IF ~f.exists
    THEN [returned |-> getDefaultParams, params |-> curParams,
          lastModified |-> curLastModified, error |-> FALSE]
    ELSE IF ParseThrows(f.content) \/ ~IsObject(f.content)
    THEN [returned |-> getDefaultParams, params |-> curParams,
          lastModified |-> curLastModified, error |-> TRUE]
    ELSE [returned |-> validateParams(IF isNewFormat(f.content.value)
                                      THEN convertNewToOldFormat(f.content.value)
                                      ELSE f.content.value),
          params |-> <<validateParams(IF isNewFormat(f.content.value)
                                      THEN convertNewToOldFormat(f.content.value)
                                      ELSE f.content.value)>>,
          lastModified |-> f.mtimeMs, error |-> FALSE]

\* A getMarketParams that would serve the BTC_15m entry of a section to a
\* market the section does not list (the code does not).
getMarketParamsWithFallback(doc, marketKey) ==
    [s \in {x \in Sections : x \in DOMAIN doc /\ "BTC_15m" \in DOMAIN doc[x].per_market}
        |-> IF normalizeMarketKey(marketKey) \in DOMAIN doc[s].per_market
            THEN doc[s].per_market[normalizeMarketKey(marketKey)]
            ELSE doc[s].per_market["BTC_15m"]]

\* The MarketParams getMarketParams builds from a document: a section is
\* defined when the document has an entry for the normalized key.
getMarketParams(doc, marketKey) ==
    [s \in {x \in Sections : x \in DOMAIN doc
                             /\ normalizeMarketKey(marketKey) \in DOMAIN doc[x].per_market}
        |-> doc[s].per_market[normalizeMarketKey(marketKey)]]

(***************************************************************************)
(* Parameter files and listeners the model uses                            *)
(***************************************************************************)
MaxListeners == 2
ListenerIds == {"L1", "L2"}

\* Market-first layout, with a section and a key the conversion skips.
FileMarketFirst ==
    [kind |-> "object",
     value |-> [BTC_15m |-> [entry_params |-> EntryNone, size_params |-> Size1D,
                             inventory_params |-> InventoryCaps,
                             cadence_params |-> Cadence, cooldown_params |-> Cooldown],
                generated_at |-> [run |-> 1]]]
\* Param-type-first layout, two of the four sections missing and a risk
\* section present.
FileParamFirst ==
    [kind |-> "object",
     value |-> [entry_params |-> [per_market |-> ("BTC_15m" :> EntryUpOnly)
                                                 @@ ("ETH_15m" :> EntryNone)],
                size_params |-> [per_market |-> ("BTC_15m" :> Size1D)],
                risk_params |-> [per_market |-> ("BTC_15m" :> Risk)]]]
\* Text that is not JSON, and the JSON text null.
FileGarbage == [kind |-> "garbage"]
FileNull == [kind |-> "null"]
FileContents == {FileMarketFirst, FileParamFirst, FileGarbage, FileNull}

(***************************************************************************)
(* Actions of the ParameterLoader and of whoever writes the file           *)
(***************************************************************************)
\* A MarketParams object with every section read afresh from the document
\* now in force.
HeldRewrittenInPlace(held, marketKey, published) == getMarketParams(published, marketKey)

\* What a MarketParams object handed out earlier holds once the loader has
\* assigned a newly parsed document to this.params (110, 249, 261): the
\* loader writes to no object reachable from the document it replaces.
HeldAfterSwap(held, marketKey, published) == held

\* startHotReload(): the initial load, then the timer.
StartHotReload ==
    /\ ~pollInterval
    /\ \E r \in {loadParams(file, params, lastModified)} :
           /\ params' = <<r.returned>>
           /\ lastModified' = r.lastModified
           /\ marketParams' = [m \in DOMAIN marketParams |->
                                  HeldAfterSwap(marketParams[m], m, r.returned)]
           /\ lastOp' = [op |-> "startHotReload", loadError |-> r.error]
    /\ pollInterval' = TRUE
    /\ UNCHANGED <<policyVars, now, decision, pending, listeners, file, allTrades, caught>>

\* Listeners whose call throws.
ThrowingListeners == {"L2"}

\* A forEach that gives up at the first listener that throws.
InvokedUntilThrow(ls) ==
    SubSeq(ls, 1, IF \E i \in 1..Len(ls) : ls[i] \in ThrowingListeners
                  THEN CHOOSE i \in 1..Len(ls) :
                           /\ ls[i] \in ThrowingListeners
                           /\ \A j \in 1..(i - 1) : ls[j] \notin ThrowingListeners
                  ELSE Len(ls))

\* this.listeners.forEach(listener => { try { listener(newParams) } catch ... }):
\* the listeners that get called; each call has its own try/catch.
InvokedListeners(ls) == ls

\* One run of the setInterval callback (252-276).
PollTick ==
    /\ pollInterval
    /\ \E r \in {loadParams(file, params, lastModified)},
          newer \in {file.exists /\ file.mtimeMs > lastModified} :
           /\ params' = IF newer THEN <<r.returned>> ELSE params
           /\ lastModified' = IF newer THEN r.lastModified ELSE lastModified
           /\ marketParams' = IF newer
                               THEN [m \in DOMAIN marketParams |->
                                        HeldAfterSwap(marketParams[m], m, r.returned)]
                               ELSE marketParams
           /\ caught' = (caught \/ (newer /\ \E i \in 1..Len(InvokedListeners(listeners)) :
                                        InvokedListeners(listeners)[i] \in ThrowingListeners))
           /\ lastOp' = [op |-> "pollTick", newer |-> newer,
                         loadError |-> (newer /\ r.error),
                         paramsBefore |-> params,
                         registered |-> listeners,
                         caughtBefore |-> caught,
                         notified |-> IF newer THEN InvokedListeners(listeners) ELSE <<>>,
                         passed |-> IF newer THEN <<r.returned>> ELSE <<>>,
                         threw |-> FALSE]
    /\ UNCHANGED <<policyVars, now, decision, pending, pollInterval, listeners, file, allTrades>>

StopHotReload ==
    /\ pollInterval
    /\ pollInterval' = FALSE
    /\ lastOp' = [op |-> "stopHotReload"]
    /\ UNCHANGED <<policyVars, loopVars, params, lastModified, listeners, file, allTrades, caught>>

\* onReload(listener): push.
OnReload(l) ==
    /\ Len(listeners) < MaxListeners
    /\ listeners' = Append(listeners, l)
    /\ lastOp' = [op |-> "onReload", listener |-> l]
    /\ UNCHANGED <<policyVars, loopVars, params, lastModified, pollInterval, file, allTrades, caught>>

\* offReload(listener): splice out the first occurrence.
OffReload(l) ==
    /\ \E i \in 1..Len(listeners) :
           /\ listeners[i] = l
           /\ \A j \in 1..(i - 1) : listeners[j] # l
           /\ listeners' = SubSeq(listeners, 1, i - 1) \o SubSeq(listeners, i + 1, Len(listeners))
    /\ lastOp' = [op |-> "offReload", listener |-> l]
    /\ UNCHANGED <<policyVars, loopVars, params, lastModified, pollInterval, file, allTrades, caught>>

\* The loop fetches a market's parameters: getMarketParams, whose getParams
\* loads the file when nothing is loaded yet.
GetMarketParams(m) ==
    /\ \E r \in {loadParams(file, params, lastModified)},
          doc \in {IF params = <<>> THEN loadParams(file, params, lastModified).returned
                   ELSE params[1]} :
           /\ params' = <<doc>>
           /\ lastModified' = IF params = <<>> THEN r.lastModified ELSE lastModified
           /\ marketParams' = MapSet(marketParams, m, getMarketParams(doc, m))
    /\ lastOp' = [op |-> "getMarketParams", market |-> m]
    /\ UNCHANGED <<policyVars, now, decision, pending, pollInterval, listeners, file, allTrades, caught>>

\* The analyzer (or anyone) writes the file; its mtime is the time of writing.
WriteFile(c) ==
    /\ file' = [exists |-> TRUE, content |-> c, mtimeMs |-> now]
    /\ file' # file
    /\ lastOp' = [op |-> "writeFile"]
    /\ UNCHANGED <<policyVars, loopVars, params, lastModified, pollInterval, listeners, allTrades, caught>>

DeleteFile ==
    /\ file.exists
    /\ file' = [file EXCEPT !.exists = FALSE]
    /\ lastOp' = [op |-> "deleteFile"]
    /\ UNCHANGED <<policyVars, loopVars, params, lastModified, pollInterval, listeners, allTrades, caught>>

(***************************************************************************)
(* Initial states and specifications                                       *)
(***************************************************************************)
EmptyMap == [x \in {} |-> 0]

\* The integrator after construction (616-624).
InitPolicy ==
    /\ priceHistory = EmptyMap
    /\ inventory = EmptyMap
    /\ lastTradeTime = EmptyMap
    /\ recentTradeTimes = EmptyMap
    /\ decisionIdCounter = 0
    /\ tradesPerSession = EmptyMap
    /\ lastPriceState = EmptyMap

InitLoop ==
    /\ now = StartTime
    /\ decision = EmptyMap
    /\ pending = {}
    /\ allTrades = EmptyMap
    /\ lastOp = [op |-> "init"]

\* The loader after construction (74-78).
InitLoaderFields ==
    /\ params = <<>>
    /\ lastModified = 0
    /\ pollInterval = FALSE
    /\ listeners = <<>>
    /\ caught = FALSE

\* The trading loop with parameters already fetched, the loader at rest.
Init ==
    /\ InitPolicy
    /\ InitLoop
    /\ InitLoaderFields
    /\ file = [exists |-> FALSE, content |-> FileGarbage, mtimeMs |-> 0]
    /\ \E mp \in TestParams : marketParams = [m \in Markets |-> mp]

Next ==
    \/ \E m \in LoopMarkets, pp \in PricePairs :
           decisionIdCounter < MaxTicks /\ ShouldTrade(m, pp[1], pp[2])
    \/ \E m \in LoopMarkets : RecordPermitted(m)
    \/ \E d \in ClockSteps : Advance(d)

Spec == Init /\ [][Next]_vars

\* The loader, the file and the loop's fetches, the integrator at rest.
InitLoader ==
    /\ InitPolicy
    /\ InitLoop
    /\ InitLoaderFields
    /\ \E e \in BOOLEAN, c \in FileContents :
           file = [exists |-> e, content |-> c, mtimeMs |-> StartTime - 500]
    /\ marketParams = [m \in Markets |-> EmptyObj]

NextLoader ==
    \/ StartHotReload
    \/ PollTick
    \/ StopHotReload
    \/ \E l \in ListenerIds : OnReload(l)
    \/ \E l \in ListenerIds : OffReload(l)
    \/ \E m \in LoopMarkets : GetMarketParams(m)
    \/ \E c \in FileContents : WriteFile(c)
    \/ DeleteFile
    \/ \E d \in ClockSteps : Advance(d)

SpecLoader == InitLoader /\ [][NextLoader]_vars

\* recordTradeExecution called with arguments of the caller's choosing.
MaxTrades == 3
MaxFreeTicks == 2
RecordShares == {3, 10}
RecordCosts == {7}
RecordAny(market, side, shares, cost) ==
    /\ Len(GetOr(allTrades, market, <<>>)) < MaxTrades
    /\ recordTradeExecution(market, now, side, shares, cost)
    /\ UNCHANGED <<now, marketParams, decision, pending>>

InitFree ==
    /\ InitPolicy
    /\ InitLoop
    /\ InitLoaderFields
    /\ file = [exists |-> FALSE, content |-> FileGarbage, mtimeMs |-> 0]
    /\ marketParams = [m \in Markets |-> ParamsBasic]

NextFree ==
    \/ \E m \in LoopMarkets, pp \in PricePairs :
           decisionIdCounter < MaxFreeTicks /\ ShouldTrade(m, pp[1], pp[2])
    \/ \E m \in LoopMarkets, side \in {"UP", "DOWN"}, shares \in RecordShares,
          cost \in RecordCosts : RecordAny(m, side, shares, cost)
    \/ \E d \in ClockSteps : Advance(d)

SpecFree == InitFree /\ [][NextFree]_vars

\* A fast loop: ticks at one price within one millisecond, every permitted
\* trade recorded at the time of its tick before the next tick, under
\* cadence limits just above the capacity of the recent-trades list.
MaxBurstTicks == 103
CadenceBurst ==
    [min_inter_trade_ms |-> 0, p50_inter_trade_ms |-> 0, p95_inter_trade_ms |-> 0,
     max_trades_per_sec |-> maxRecentTrades + 1, max_trades_per_min |-> maxRecentTrades + 1]
ParamsBurst ==
    [entry_params |-> EntryNone, size_params |-> Size1D, cadence_params |-> CadenceBurst]

InitBurst ==
    /\ InitPolicy
    /\ InitLoop
    /\ InitLoaderFields
    /\ file = [exists |-> FALSE, content |-> FileGarbage, mtimeMs |-> 0]
    /\ marketParams = [m \in Markets |-> ParamsBurst]

NextBurst ==
    \/ \E m \in LoopMarkets :
           /\ pending = {}
           /\ decisionIdCounter < MaxBurstTicks
           /\ ShouldTrade(m, 500, 500)
    \/ \E m \in LoopMarkets : RecordPermitted(m)

SpecBurst == InitBurst /\ [][NextBurst]_vars

\* The loop fetching parameters and ticking while the file is rewritten and
\* the loader reloads.
MaxReloadTicks == 2
InitReload ==
    /\ InitPolicy
    /\ InitLoop
    /\ InitLoaderFields
    /\ \E c \in FileContents :
           file = [exists |-> TRUE, content |-> c, mtimeMs |-> StartTime - 500]
    /\ marketParams = [m \in Markets |-> EmptyObj]

NextReload ==
    \/ StartHotReload
    \/ PollTick
    \/ \E m \in LoopMarkets : GetMarketParams(m)
    \/ \E c \in FileContents : WriteFile(c)
    \/ \E m \in LoopMarkets, pp \in PricePairs :
           decisionIdCounter < MaxReloadTicks /\ ShouldTrade(m, pp[1], pp[2])
    \/ \E d \in ClockSteps : Advance(d)

SpecReload == InitReload /\ [][NextReload]_vars

\* One integrator serving two markets.
MaxMarketTicks == 3
InitMarkets ==
    /\ InitPolicy
    /\ InitLoop
    /\ InitLoaderFields
    /\ file = [exists |-> FALSE, content |-> FileGarbage, mtimeMs |-> 0]
    /\ marketParams = [m \in Markets |-> ParamsBasic]

NextMarkets ==
    \/ \E m \in Markets, pp \in PricePairs :
           decisionIdCounter < MaxMarketTicks /\ ShouldTrade(m, pp[1], pp[2])
    \/ \E m \in Markets : RecordPermitted(m)
    \/ \E d \in ClockSteps : Advance(d)

SpecMarkets == InitMarkets /\ [][NextMarkets]_vars

(***************************************************************************)
(* The integrator at the capacity of its price history: one market on      *)
(* momentum entry, after a feed of RingFill ticks none of which was        *)
(* recorded as a trade (the first two at StartTime, the second at 0.300 /  *)
(* 0.700, the others one second later at 0.500 / 0.500), then ticked again *)
(* and again two seconds later with the same prices.                       *)
(***************************************************************************)
MaxRingTicks == 2
RingSpread == 50
ParamsRing == [entry_params |-> EntryMomentum, size_params |-> Size1D]

\* The i-th tick of the feed, as updatePriceHistory stores it.
RingPoint(i) ==
    [timestamp |-> IF i <= 2 THEN StartTime ELSE StartTime + 1000,
     up_px |-> IF i = 2 THEN 300 ELSE 500,
     down_px |-> IF i = 2 THEN 700 ELSE 500]

InitRing ==
    /\ \E fill \in (maxHistoryLength - RingSpread + 1) .. maxHistoryLength :
           /\ priceHistory = [m \in LoopMarkets |-> [i \in 1..fill |-> RingPoint(i)]]
           /\ lastPriceState = [m \in LoopMarkets |-> RingPoint(fill)]
           /\ decisionIdCounter = fill
    /\ inventory = [m \in LoopMarkets |-> ZeroInventory]
    /\ lastTradeTime = EmptyMap
    /\ recentTradeTimes = EmptyMap
    /\ tradesPerSession = EmptyMap
    /\ now = StartTime + 3000
    /\ decision = EmptyMap
    /\ pending = {}
    /\ allTrades = EmptyMap
    /\ lastOp = [op |-> "init"]
    /\ InitLoaderFields
    /\ file = [exists |-> FALSE, content |-> FileGarbage, mtimeMs |-> 0]
    /\ marketParams = [m \in LoopMarkets |-> ParamsRing]

NextRing ==
    \E m \in LoopMarkets :
        decisionIdCounter < maxHistoryLength + MaxRingTicks /\ ShouldTrade(m, 500, 500)

SpecRing == InitRing /\ [][NextRing]_vars

(***************************************************************************)
(* The caller loop on a loader without hot reload: the parameters of a     *)
(* market are fetched under the key the caller passes, in any of its       *)
(* spellings, from a file that may be absent, and the market is ticked on  *)
(* what was fetched.                                                       *)
(***************************************************************************)
MaxFetchTicks == 2
CallerKeys == {"BTC-UpDown-15", "btc_15m", "ETH-UpDown-1h"}

InitFetch ==
    /\ InitPolicy
    /\ InitLoop
    /\ InitLoaderFields
    /\ \E e \in BOOLEAN, c \in FileContents :
           file = [exists |-> e, content |-> c, mtimeMs |-> StartTime - 500]
    /\ marketParams = EmptyMap

NextFetch ==
    \/ \E m \in CallerKeys : m \notin DOMAIN marketParams /\ GetMarketParams(m)
    \/ \E m \in CallerKeys, pp \in PricePairs :
           /\ m \in DOMAIN marketParams
           /\ decisionIdCounter < MaxFetchTicks
           /\ ShouldTrade(m, pp[1], pp[2])
    \/ \E m \in CallerKeys : RecordPermitted(m)
    \/ \E d \in ClockSteps : Advance(d)

SpecFetch == InitFetch /\ [][NextFetch]_vars

(***************************************************************************)
(* The trading loop on a tape that also delivers prices outside [0, 1],    *)
(* with every gate configured, the quality filter included.                *)
(***************************************************************************)
MaxTapeTicks == 2

InitTape ==
    /\ InitPolicy
    /\ InitLoop
    /\ InitLoaderFields
    /\ file = [exists |-> FALSE, content |-> FileGarbage, mtimeMs |-> 0]
    /\ marketParams = [m \in Markets |-> ParamsFull]

NextTape ==
    \/ \E m \in LoopMarkets, pp \in PricePairs \cup {<<1200, -200>>, <<1010, 0>>} :
           decisionIdCounter < MaxTapeTicks /\ ShouldTrade(m, pp[1], pp[2])
    \/ \E m \in LoopMarkets : RecordPermitted(m)
    \/ \E d \in ClockSteps : Advance(d)

SpecTape == InitTape /\ [][NextTape]_vars

(***************************************************************************)
(* The PolicyEngine called directly, as its unit tests do, and the key      *)
(* normalizer of the ParameterLoader: each action applies one pure method  *)
(* to the arguments of a call drawn from small sets, and records the       *)
(* arguments and the value returned.                                       *)
(***************************************************************************)
MaxRecent == 2
EngineEntryParams ==
    {<<>>} \cup
    {<<[up_price_min |-> ub[1], up_price_max |-> ub[2],
        down_price_min |-> db[1], down_price_max |-> db[2],
        momentum_window_s |-> 5, momentum_threshold |-> 100, mode |-> mode]>> :
        ub \in {<<NULL, NULL>>, <<400, 600>>, <<NULL, 600>>},
        db \in {<<NULL, NULL>>, <<400, 600>>, <<NULL, 600>>},
        mode \in {"none", "momentum"}}
EngineInventoryParams ==
    {<<>>} \cup
    {<<[rebalance_ratio_R |-> r, max_up_shares |-> 15, max_down_shares |-> md,
        max_total_shares |-> mt]>> : r \in {500, 750}, md \in {10, 15}, mt \in {20, 25}}
EngineNow == 100000
EngineRecent ==
    UNION {[1..n -> {EngineNow - 60001, EngineNow - 60000, EngineNow - 1001,
                     EngineNow - 1000, EngineNow}] : n \in 0..MaxRecent}
EngineCadenceParams ==
    {<<>>} \cup
    {<<[min_inter_trade_ms |-> mi, p50_inter_trade_ms |-> 2000,
        p95_inter_trade_ms |-> 9000, max_trades_per_sec |-> ps,
        max_trades_per_min |-> pm]>> : mi \in {0, 1000}, ps \in {1, 2}, pm \in {2, 3}}

\* Size parameters: the 1D and 2D tables of the trading loop; a 1D table
\* keyed by the edges of every bucket, the first included; four edges away
\* from 0 and 1; 2D tables with entries missing, so that each fallback is
\* reached, one of them without inventory_buckets; and a 1D table whose
\* entry 12.12346 is written in hundred-thousandths of a share.
EngineSizeParams ==
    {<<>>, <<Size1D>>, <<Size2D>>,
     <<[Size1D EXCEPT !.size_table_1d = (<<0, 500>> :> 12) @@ (<<500, 1000>> :> 22)]>>,
     <<[Size1D EXCEPT !.bin_edges = <<200, 400, 600, 800>>,
                      !.size_table_1d = (<<-1, 400>> :> 10) @@ (<<400, 600>> :> 15)
                                        @@ (<<600, 800>> :> 20)]>>,
     <<[Size2D EXCEPT !.size_table = (<<-1, 500, "bucket_1">> :> 15)
                                     @@ (<<500, 1000, "bucket_0">> :> 10),
                      !.size_table_1d = (<<-1, 500>> :> 12)]>>,
     <<[Size2D EXCEPT !.size_table = (<<500, 1000, "bucket_0">> :> 10)
                                     @@ (<<500, 1000, "bucket_1">> :> 20),
                      !.size_table_1d = (<<-1, 500>> :> 12)]>>,
     <<[Size2D EXCEPT !.size_table = EmptyObj, !.size_table_1d = EmptyObj]>>,
     <<[bin_edges |-> <<0, 500, 1000>>,
        size_table |-> (<<-1, 500, "bucket_1">> :> 15),
        size_table_1d |-> (<<-1, 500>> :> 12),
        conditioning_var |-> "inventory_imbalance_ratio",
        inventory_bucket_thresholds |-> <<0, 1000, 2000>>]>>,
     <<[bin_edges |-> <<0, 1000>>, size_table |-> EmptyObj,
        size_table_1d |-> (<<-1, 1000>> :> 1212346), conditioning_var |-> "null"]>>,
     <<[Size1D EXCEPT !.bin_edges = <<>>]>>,
     <<[Size1D EXCEPT !.bin_edges = <<500>>]>>,
     <<[Size1D EXCEPT !.bin_edges = <<0, 500, 500, 1000>>]>>,
     <<[Size1D EXCEPT !.bin_edges = <<1000, 500, 0>>]>>}

\* The calls a test can make, before they are made.
EngineCalls ==
    {[op |-> "call", method |-> "entrySignal",
      state |-> [timestamp |-> StartTime, up_px |-> up, down_px |-> down,
                 market |-> "BTC_15m"],
      features |-> f, entryParams |-> ep] :
        up \in {300, 400, 500, 600, 700}, down \in {300, 400, 500, 600, 700},
        f \in {EmptyObj, [delta_5s_side_px |-> 200]}, ep \in EngineEntryParams}
    \cup
    {[op |-> "call", method |-> "inventoryOkAndRebalance",
      inventory |-> [inv_up_shares |-> up, inv_down_shares |-> down],
      inventoryParams |-> ip, proposedSide |-> side] :
        up \in {0, 5, 10, 15, 20}, down \in {0, 5, 10, 15, 20},
        ip \in EngineInventoryParams, side \in {"UP", "DOWN"}}
    \cup
    {[op |-> "call", method |-> "cadenceOk", lastTradeTs |-> last, recent |-> recent,
      cadenceParams |-> cp, currentTs |-> EngineNow] :
        last \in {NULL, EngineNow - 1500, EngineNow - 1000, EngineNow - 999, EngineNow},
        recent \in EngineRecent, cp \in EngineCadenceParams}
    \cup
    {[op |-> "call", method |-> "sizeForTrade",
      state |-> [timestamp |-> StartTime, up_px |-> up, down_px |-> 1000 - up,
                 market |-> "BTC_15m"],
      sizeParams |-> sp, side |-> side,
      inventory |-> [inv_up_shares |-> inv[1], inv_down_shares |-> inv[2]]] :
        up \in {-200, 0, 100, 200, 400, 500, 600, 800, 900, 1000, 1200},
        sp \in EngineSizeParams, side \in {"UP", "DOWN"},
        inv \in {<<0, 0>>, <<5, 0>>, <<25, 100>>, <<50, 100>>, <<100, 100>>, <<100, 50>>,
                 <<300, 100>>}}
    \cup
    {[op |-> "call", method |-> "normalizeMarketKey", marketKey |-> k] :
        k \in DOMAIN Spelling}
    \cup
    {[op |-> "call", method |-> "selectSideWhenBothValid",
      state |-> [timestamp |-> StartTime, up_px |-> up, down_px |-> 1000 - up,
                 market |-> "BTC_15m"],
      features |-> f,
      inventory |-> [inv_up_shares |-> inv[1], inv_down_shares |-> inv[2]],
      sideSelectionParams |-> ssp, entrySignalUp |-> su, entrySignalDown |-> sd] :
        up \in {400, 500, 600}, f \in {EmptyObj, [delta_5s_side_px |-> 200]},
        inv \in {<<0, 0>>, <<10, 0>>, <<0, 10>>, <<5, 5>>},
        ssp \in {<<>>}
                \cup {<<[mode |-> mode, preferred_side |-> ps]>> :
                          mode \in {"fixed_preference", "inventory_driven", "edge_driven",
                                    "momentum_driven", "alternating", "mixed"},
                          ps \in {"UP", "DOWN"}}
                \cup {<<[mode |-> "fixed_preference", preferred_side |-> ps,
                         confidence_gap |-> gap]>> :
                          ps \in {"UP", "DOWN"}, gap \in {50, 100, 300}},
        su \in BOOLEAN, sd \in BOOLEAN}

\* policyEngine.entrySignal(state, features, entryParams)
EntrySignalCall ==
    /\ lastOp.op = "call" /\ lastOp.method = "entrySignal"
    /\ lastOp' = [op |-> "entrySignal", state |-> lastOp.state,
                  features |-> lastOp.features, entryParams |-> lastOp.entryParams,
                  result |-> entrySignal(lastOp.state, lastOp.features,
                                         lastOp.entryParams)]
    /\ UNCHANGED <<policyVars, loopVars, loaderVars, allTrades>>

\* policyEngine.inventoryOkAndRebalance(inventory, inventoryParams, proposedSide)
InventoryCall ==
    /\ lastOp.op = "call" /\ lastOp.method = "inventoryOkAndRebalance"
    /\ lastOp' = [op |-> "inventoryOkAndRebalance", inventory |-> lastOp.inventory,
                  inventoryParams |-> lastOp.inventoryParams,
                  proposedSide |-> lastOp.proposedSide,
                  result |-> inventoryOkAndRebalance(lastOp.inventory,
                                                     lastOp.inventoryParams,
                                                     lastOp.proposedSide)]
    /\ UNCHANGED <<policyVars, loopVars, loaderVars, allTrades>>

\* policyEngine.cadenceOk(lastTradeTs, recentTradeTimes, cadenceParams, currentTs)
CadenceCall ==
    /\ lastOp.op = "call" /\ lastOp.method = "cadenceOk"
    /\ lastOp' = [op |-> "cadenceOk", lastTradeTs |-> lastOp.lastTradeTs,
                  recent |-> lastOp.recent, cadenceParams |-> lastOp.cadenceParams,
                  currentTs |-> lastOp.currentTs,
                  result |-> cadenceOk(lastOp.lastTradeTs, lastOp.recent,
                                       lastOp.cadenceParams, lastOp.currentTs)]
    /\ UNCHANGED <<policyVars, loopVars, loaderVars, allTrades>>

\* policyEngine.sizeForTrade(state, features, sizeParams, side, inventory); the
\* price bucket the call selected is recorded with the value returned.
SizeCall ==
    /\ lastOp.op = "call" /\ lastOp.method = "sizeForTrade"
    /\ lastOp' = [op |-> "sizeForTrade", state |-> lastOp.state,
                  sizeParams |-> lastOp.sizeParams, side |-> lastOp.side,
                  inventory |-> lastOp.inventory,
                  priceBucketIndex |->
                      IF lastOp.sizeParams = <<>> THEN -1
                      ELSE IF Len(lastOp.sizeParams[1].bin_edges) < 2 THEN -1
                      ELSE PriceBucketIndex(lastOp.sizeParams[1].bin_edges,
                                            IF lastOp.side = "UP" THEN lastOp.state.up_px
                                            ELSE lastOp.state.down_px),
                  result |-> sizeForTrade(lastOp.state, EmptyObj, lastOp.sizeParams,
                                          lastOp.side, <<lastOp.inventory>>)]
    /\ UNCHANGED <<policyVars, loopVars, loaderVars, allTrades>>

\* normalizeMarketKey(marketKey), as getMarketParams calls it.
NormalizeCall ==
    /\ lastOp.op = "call" /\ lastOp.method = "normalizeMarketKey"
    /\ lastOp' = [op |-> "normalizeMarketKey", marketKey |-> lastOp.marketKey,
                  result |-> normalizeMarketKey(lastOp.marketKey)]
    /\ UNCHANGED <<policyVars, loopVars, loaderVars, allTrades>>

\* policyEngine.selectSideWhenBothValid(state, features, inventory,
\* sideSelectionParams, entrySignalUp, entrySignalDown)
SideCall ==
    /\ lastOp.op = "call" /\ lastOp.method = "selectSideWhenBothValid"
    /\ lastOp' = [op |-> "selectSideWhenBothValid", state |-> lastOp.state,
                  features |-> lastOp.features, inventory |-> lastOp.inventory,
                  sideSelectionParams |-> lastOp.sideSelectionParams,
                  entrySignalUp |-> lastOp.entrySignalUp,
                  entrySignalDown |-> lastOp.entrySignalDown,
                  result |-> selectSideWhenBothValid(lastOp.state, lastOp.features,
                                 lastOp.inventory, lastOp.sideSelectionParams,
                                 lastOp.entrySignalUp, lastOp.entrySignalDown)]
    /\ UNCHANGED <<policyVars, loopVars, loaderVars, allTrades>>

InitEngine ==
    /\ InitPolicy
    /\ now = StartTime
    /\ decision = EmptyMap
    /\ pending = {}
    /\ allTrades = EmptyMap
    /\ lastOp \in EngineCalls
    /\ InitLoaderFields
    /\ file = [exists |-> FALSE, content |-> FileGarbage, mtimeMs |-> 0]
    /\ marketParams = [m \in Markets |-> EmptyObj]

NextEngine ==
    \/ EntrySignalCall
    \/ InventoryCall
    \/ CadenceCall
    \/ SizeCall
    \/ NormalizeCall
    \/ SideCall

SpecEngine == InitEngine /\ [][NextEngine]_vars

(***************************************************************************)
(* The trading loop on momentum or reversion entry, on a tape whose UP     *)
(* price moves both ways through the bands.                                *)
(***************************************************************************)
MaxMomentumTicks == 3

InitMomentum ==
    /\ InitPolicy
    /\ InitLoop
    /\ InitLoaderFields
    /\ file = [exists |-> FALSE, content |-> FileGarbage, mtimeMs |-> 0]
    /\ \E mode \in {"momentum", "reversion"} :
           marketParams = [m \in Markets |->
                              [entry_params |-> [EntryNone EXCEPT !.mode = mode],
                               size_params |-> Size1D]]

NextMomentum ==
    \/ \E m \in LoopMarkets, pp \in PricePairs \cup {<<700, 300>>} :
           decisionIdCounter < MaxMomentumTicks /\ ShouldTrade(m, pp[1], pp[2])
    \/ \E m \in LoopMarkets : RecordPermitted(m)
    \/ \E d \in ClockSteps : Advance(d)

SpecMomentum == InitMomentum /\ [][NextMomentum]_vars

(***************************************************************************)
(* The loader polling a file that another process rewrites.  loadParams    *)
(* reads the content (94) and, after parsing and validating it, asks the   *)
(* file system for the modification time (108): a rewrite by the other     *)
(* process can fall between the two calls.                                 *)
(***************************************************************************)
\* One run of the setInterval callback during which the file is rewritten
\* with content c after readFileSync (94) and before statSync (108): the
\* content parsed is the old one, the modification time stored the new one.
PollTickDuringWrite(c) ==
    /\ pollInterval
    /\ file.exists
    /\ file.mtimeMs > lastModified
    /\ now > file.mtimeMs
    /\ c # file.content
    /\ \E r \in {loadParams(file, params, lastModified)} :
           /\ params' = <<r.returned>>
           /\ lastModified' = IF IsObject(file.content) THEN now ELSE lastModified
           /\ marketParams' = [m \in DOMAIN marketParams |->
                                  HeldAfterSwap(marketParams[m], m, r.returned)]
           /\ caught' = (caught \/ \E i \in 1..Len(InvokedListeners(listeners)) :
                                      InvokedListeners(listeners)[i] \in ThrowingListeners)
           /\ lastOp' = [op |-> "pollTickDuringWrite", loadError |-> r.error,
                         parsed |-> file.content, written |-> c,
                         notified |-> InvokedListeners(listeners)]
    /\ file' = [exists |-> TRUE, content |-> c, mtimeMs |-> now]
    /\ UNCHANGED <<policyVars, now, decision, pending, pollInterval, listeners, allTrades>>

\* Every write gives the file a modification time later than the one it had.
NextRace ==
    \/ StartHotReload
    \/ PollTick
    \/ \E c \in FileContents : PollTickDuringWrite(c)
    \/ \E l \in ListenerIds : OnReload(l)
    \/ \E m \in LoopMarkets : GetMarketParams(m)
    \/ \E c \in FileContents : now > file.mtimeMs /\ WriteFile(c)
    \/ \E d \in ClockSteps : Advance(d)

SpecRace == InitLoader /\ [][NextRace]_vars

(***************************************************************************)
(* The trading loop under a risk limit or a time cooldown, on a clock that *)
(* the caller starts at 0 (a replayed tape) or at StartTime.               *)
(***************************************************************************)
MaxGateTicks == 4

InitGates ==
    /\ InitPolicy
    /\ InitLoaderFields
    /\ file = [exists |-> FALSE, content |-> FileGarbage, mtimeMs |-> 0]
    /\ now \in {0, StartTime}
    /\ decision = EmptyMap
    /\ pending = {}
    /\ allTrades = EmptyMap
    /\ lastOp = [op |-> "init"]
    /\ \E mp \in {[entry_params |-> EntryNone, size_params |-> Size1D,
                    risk_params |-> [Risk EXCEPT !.max_trades_per_session = 2]],
                   [entry_params |-> EntryNone, size_params |-> Size1D,
                    risk_params |-> [Risk EXCEPT !.max_trades_per_session = NULL,
                                                 !.max_imbalance_ratio = 700]],
                   [entry_params |-> EntryNone, size_params |-> Size1D,
                    cooldown_params |-> Cooldown]} :
           marketParams = [m \in Markets |-> mp]

NextGates ==
    \/ \E m \in LoopMarkets, pp \in PricePairs :
           decisionIdCounter < MaxGateTicks /\ ShouldTrade(m, pp[1], pp[2])
    \/ \E m \in LoopMarkets : RecordPermitted(m)
    \/ \E d \in ClockSteps : Advance(d)

SpecGates == InitGates /\ [][NextGates]_vars

(***************************************************************************)
(* The trading loop after a long run: the price history and the recent     *)
(* trade list of the market are full or nearly so, then ticks and recorded *)
(* trades continue.  The first entries of both differ from the later ones. *)
(***************************************************************************)
MaxEvictTicks == 3
EvictSpread == 2

InitEvict ==
    /\ \E fill \in (maxHistoryLength - EvictSpread) .. maxHistoryLength,
          n \in (maxRecentTrades - EvictSpread) .. maxRecentTrades :
           /\ priceHistory = [m \in LoopMarkets |-> [i \in 1..fill |-> RingPoint(i)]]
           /\ lastPriceState = [m \in LoopMarkets |-> RingPoint(fill)]
           /\ decisionIdCounter = fill
           /\ recentTradeTimes =
                  [m \in LoopMarkets |->
                      [i \in 1..n |-> IF i = 1 THEN StartTime ELSE StartTime + 1000]]
           /\ allTrades = recentTradeTimes
           /\ lastTradeTime = [m \in LoopMarkets |-> StartTime + 1000]
           /\ tradesPerSession = [m \in LoopMarkets |-> n]
           /\ inventory = [m \in LoopMarkets |->
                              [inv_up_shares |-> 10 * n, inv_down_shares |-> 0,
                               avg_cost_up |-> <<1, 1>>]]
    /\ now = StartTime + 3000
    /\ decision = EmptyMap
    /\ pending = {}
    /\ lastOp = [op |-> "init"]
    /\ InitLoaderFields
    /\ file = [exists |-> FALSE, content |-> FileGarbage, mtimeMs |-> 0]
    /\ marketParams = [m \in LoopMarkets |->
                          [entry_params |-> EntryNone, size_params |-> Size1D]]

NextEvict ==
    \/ \E m \in LoopMarkets, pp \in PricePairs :
           /\ decisionIdCounter < maxHistoryLength + MaxEvictTicks
           /\ ShouldTrade(m, pp[1], pp[2])
    \/ \E m \in LoopMarkets : RecordPermitted(m)

SpecEvict == InitEvict /\ [][NextEvict]_vars

(***************************************************************************)
(* Properties                                                              *)
(***************************************************************************)
\* The state right after a shouldTrade call that returned a decision.
AfterTick == lastOp.op = "shouldTrade"
TickDecision == decision[lastOp.market]
\* The reasons entrySignal gives for not trading.
EntryNoTradeReasons ==
    {"no_entry_params", "no_band_match", "up_price_not_in_band", "down_price_not_in_band",
     "momentum_not_met", "reversion_not_met"}

\* C2: the gates run in the order quality, cooldown, cadence, entry, risk,
\* inventory, and the reason of a no-trade decision is that of the first gate
\* that blocks; in particular a failed quality check gives
\* data_quality_filter_failed whatever the other gates would say.
C2_FirstBlockingGate ==
    AfterTick =>
        /\ (~lastOp.qualityOk) =>
               /\ ~TickDecision.shouldTrade
               /\ TickDecision.reason = "data_quality_filter_failed"
        /\ (lastOp.qualityOk /\ ~lastOp.cooldownOk) =>
               /\ ~TickDecision.shouldTrade
               /\ TickDecision.reason = "cooldown_blocked"
        /\ (lastOp.qualityOk /\ lastOp.cooldownOk /\ ~lastOp.cadenceOk) =>
               /\ ~TickDecision.shouldTrade
               /\ TickDecision.reason = "cadence_blocked"
        /\ (lastOp.qualityOk /\ lastOp.cooldownOk /\ lastOp.cadenceOk /\ ~lastOp.entryOk) =>
               /\ ~TickDecision.shouldTrade
               /\ TickDecision.reason \in EntryNoTradeReasons
        /\ (lastOp.qualityOk /\ lastOp.cooldownOk /\ lastOp.cadenceOk /\ lastOp.entryOk
               /\ ~lastOp.riskOk) =>
               /\ ~TickDecision.shouldTrade
               /\ TickDecision.reason = "risk_limit_exceeded"
        /\ (lastOp.qualityOk /\ lastOp.cooldownOk /\ lastOp.cadenceOk /\ lastOp.entryOk
               /\ lastOp.riskOk /\ ~lastOp.inventoryOk /\ ~TickDecision.threw) =>
               /\ ~TickDecision.shouldTrade
               /\ TickDecision.reason = "inventory_limit_exceeded"

\* A tick on which both the risk gate and the inventory gate block, every
\* earlier gate passing.
C2_Witness ==
    /\ AfterTick
    /\ lastOp.qualityOk /\ lastOp.cooldownOk /\ lastOp.cadenceOk /\ lastOp.entryOk
    /\ ~lastOp.riskOk /\ ~lastOp.inventoryOk
    /\ TickDecision.reason = "risk_limit_exceeded"

\* C3: when recordTradeExecution is called only with the side and shares of
\* a decision shouldTrade has just permitted, then after each call the
\* market's inventory is within max_up_shares, max_down_shares and
\* max_total_shares.
C3_InventoryWithinCaps ==
    (lastOp.op = "recordTradeExecution"
        /\ Has(marketParams[lastOp.market], "inventory_params"))
    => /\ inventory[lastOp.market].inv_up_shares
              <= marketParams[lastOp.market].inventory_params.max_up_shares
       /\ inventory[lastOp.market].inv_down_shares
              <= marketParams[lastOp.market].inventory_params.max_down_shares
       /\ inventory[lastOp.market].inv_up_shares + inventory[lastOp.market].inv_down_shares
              <= marketParams[lastOp.market].inventory_params.max_total_shares

\* C5: after every shouldTrade call, whether the quality check passed or
\* rejected the tick, the market's last-price snapshot is the tick just
\* processed.
C5_SnapshotIsTick ==
    AfterTick =>
        /\ lastOp.market \in DOMAIN lastPriceState
        /\ lastPriceState[lastOp.market] =
               [up_px |-> lastOp.up_px, down_px |-> lastOp.down_px,
                timestamp |-> lastOp.timestamp]

\* C6: a decision trades on a side only if that side's price band is
\* configured and contains the side's price (bounds included); when neither
\* price is in its band the decision is a no-trade.
C6_TradeOnlyInBand ==
    (AfterTick /\ ~TickDecision.threw /\ TickDecision.shouldTrade) =>
        /\ (TickDecision.side = "UP") => lastOp.actualUp
        /\ (TickDecision.side = "DOWN") => lastOp.actualDown

\* C7: for well-formed parameters, among them size_params conditioned on
\* inventory_imbalance_ratio with a two-dimensional table, shouldTrade
\* returns a Decision and never throws.
C7_NeverThrows == AfterTick => ~TickDecision.threw

\* C8: for every tick and parameter set the returned decision has
\* shares >= 0; when should_trade is true its side is UP or DOWN and its
\* shares are > 0; when it is false its side is null and its shares are 0.
C8_DecisionShape ==
    (AfterTick /\ ~TickDecision.threw) =>
        /\ TickDecision.shares >= 0
        /\ TickDecision.shouldTrade =>
               (TickDecision.side \in {"UP", "DOWN"} /\ TickDecision.shares > 0)
        /\ ~TickDecision.shouldTrade =>
               (TickDecision.side = "null" /\ TickDecision.shares = 0)

\* C1: when a poll tick sees the file strictly newer but reading, parsing or
\* validating it fails, the snapshot served afterwards is the one loaded
\* before (not the empty defaults), and the poll tick does not throw.
C1_FailedReloadKeepsSnapshot ==
    (lastOp.op = "pollTick" /\ lastOp.newer /\ lastOp.loadError) =>
        /\ params = lastOp.paramsBefore
        /\ ~lastOp.threw

\* C4: for a market with cadence_params whose permitted trades are each
\* recorded at the time of their tick before the next tick, at every tick
\* the number of recorded trades in [now-1000, now] is at most
\* max_trades_per_sec and the number in [now-60000, now] is at most
\* max_trades_per_min.
C4_WindowCounts ==
    (AfterTick /\ Has(marketParams[lastOp.market], "cadence_params")) =>
        /\ CountInWindow(GetOr(allTrades, lastOp.market, <<>>), now - 1000, now)
               <= marketParams[lastOp.market].cadence_params.max_trades_per_sec
        /\ CountInWindow(GetOr(allTrades, lastOp.market, <<>>), now - 60000, now)
               <= marketParams[lastOp.market].cadence_params.max_trades_per_min

\* avg is the fraction total / shares.
AvgIs(avg, total, shares) == avg[1] * shares = avg[2] * total
\* old_avg * old_shares for a side, 0 when the side has no average yet.
CostBefore(invRec, avgField, sharesField) ==
    IF Has(invRec, avgField)
    THEN (invRec[avgField][1] * invRec[sharesField]) \div invRec[avgField][2]
    ELSE 0
SameField(old, new, f) ==
    /\ Has(old, f) <=> Has(new, f)
    /\ Has(old, f) => new[f] = old[f]
RecordEffect(old, new, sharesField, avgField, otherShares, otherAvg, shares, cost) ==
    /\ new[sharesField] = old[sharesField] + shares
    /\ AvgIs(new[avgField], CostBefore(old, avgField, sharesField) + cost,
             old[sharesField] + shares)
    /\ SameField(old, new, otherShares)
    /\ SameField(old, new, otherAvg)

\* C9: recordTradeExecution(market, t, side, shares, cost) adds shares to the
\* side's inventory, makes the side's average cost
\* (old_avg*old_shares + cost)/(old_shares + shares), appends t to the
\* market's recent trades, sets the last trade time to t, adds one to the
\* session's trade count, and leaves the other side's shares and average
\* cost, the price history and the last-price snapshot as they were.
C9_RecordFrame ==
    [][lastOp'.op = "recordTradeExecution" =>
        /\ IF lastOp'.side = "UP"
           THEN RecordEffect(GetOr(inventory, lastOp'.market, ZeroInventory),
                             inventory'[lastOp'.market],
                             "inv_up_shares", "avg_cost_up",
                             "inv_down_shares", "avg_cost_down",
                             lastOp'.shares, lastOp'.cost)
           ELSE RecordEffect(GetOr(inventory, lastOp'.market, ZeroInventory),
                             inventory'[lastOp'.market],
                             "inv_down_shares", "avg_cost_down",
                             "inv_up_shares", "avg_cost_up",
                             lastOp'.shares, lastOp'.cost)
        /\ \/ recentTradeTimes'[lastOp'.market] =
                  Append(GetOr(recentTradeTimes, lastOp'.market, <<>>), lastOp'.timestamp)
           \/ /\ Len(GetOr(recentTradeTimes, lastOp'.market, <<>>)) = maxRecentTrades
              /\ recentTradeTimes'[lastOp'.market] =
                     Tail(Append(recentTradeTimes[lastOp'.market], lastOp'.timestamp))
        /\ lastTradeTime'[lastOp'.market] = lastOp'.timestamp
        /\ tradesPerSession'[lastOp'.market] =
               GetOr(tradesPerSession, lastOp'.market, 0) + 1
        /\ priceHistory' = priceHistory
        /\ lastPriceState' = lastPriceState
    ]_vars

\* A second recorded trade on a side that already has an average cost, the
\* other side holding shares too.
C9_Witness ==
    /\ lastOp.op = "recordTradeExecution"
    /\ lastOp.side = "UP"
    /\ inventory[lastOp.market].inv_up_shares > lastOp.shares
    /\ inventory[lastOp.market].inv_down_shares > 0
    /\ inventory[lastOp.market].avg_cost_up # <<lastOp.cost, lastOp.shares>>
    /\ priceHistory # EmptyMap

\* C10: listeners are invoked only on a poll tick that parsed, validated and
\* swapped in a new snapshot, after the swap (the snapshot in force is the
\* one passed to them); a poll tick whose load failed invokes no listener.
C10_NotifyOnlyAfterSuccess ==
    (lastOp.op = "pollTick" /\ lastOp.notified # <<>>) =>
        /\ lastOp.newer
        /\ ~lastOp.loadError
        /\ params = lastOp.passed

\* C11: a listener that throws does not keep the listeners registered after
\* it from being invoked for that reload, does not undo the swap, and does
\* not stop later poll ticks from reloading and notifying: on every poll
\* tick that reloads, also after an earlier listener error, every registered
\* listener is invoked, the snapshot in force is the one passed to them, and
\* the timer keeps running.
C11_ListenerErrorContained ==
    (lastOp.op = "pollTick" /\ lastOp.newer) =>
        /\ lastOp.notified = lastOp.registered
        /\ params = lastOp.passed
        /\ pollInterval
        /\ ~lastOp.threw

\* A reload, after an earlier listener error, on which the throwing
\* listener is registered ahead of another one.
C11_Witness ==
    /\ lastOp.op = "pollTick" /\ lastOp.newer /\ ~lastOp.loadError
    /\ lastOp.caughtBefore
    /\ lastOp.registered = <<"L2", "L1">>
    /\ lastOp.notified = <<"L2", "L1">>
    /\ params = lastOp.passed

SameEntry(before, after, k) ==
    /\ (k \in DOMAIN before) <=> (k \in DOMAIN after)
    /\ (k \in DOMAIN before) => after[k] = before[k]

\* C13: no mutable state is shared between market keys: a shouldTrade or
\* recordTradeExecution call for one market leaves every other market's
\* price history, inventory, last trade time, recent trades, session counter
\* and last-price snapshot unchanged, and the decision the other market
\* would get for any tick, decision id included, is the same after the call
\* as before it.
C13_MarketsIndependent ==
    [][lastOp'.op \in {"shouldTrade", "recordTradeExecution"} =>
        \A b \in Markets \ {lastOp'.market} :
            /\ SameEntry(priceHistory, priceHistory', b)
            /\ SameEntry(inventory, inventory', b)
            /\ SameEntry(lastTradeTime, lastTradeTime', b)
            /\ SameEntry(recentTradeTimes, recentTradeTimes', b)
            /\ SameEntry(tradesPerSession, tradesPerSession', b)
            /\ SameEntry(lastPriceState, lastPriceState', b)
            /\ \A pp \in PricePairs :
                   shouldTradeResult(priceHistory', inventory', lastTradeTime',
                                     recentTradeTimes', decisionIdCounter',
                                     tradesPerSession', lastPriceState',
                                     b, now', pp[1], pp[2], marketParams'[b]).decision
                   = shouldTradeResult(priceHistory, inventory, lastTradeTime,
                                       recentTradeTimes, decisionIdCounter,
                                       tradesPerSession, lastPriceState,
                                       b, now, pp[1], pp[2], marketParams[b]).decision
    ]_vars

\* C14: two consecutive shouldTrade calls for the same market with the same
\* timestamp, prices and parameters, with no recordTradeExecution or reset
\* between them, return decisions with the same should_trade, side, shares,
\* reason and fill price.
C14_RepeatedTickSameDecision ==
    [][(/\ lastOp.op = "shouldTrade" /\ lastOp'.op = "shouldTrade"
        /\ lastOp'.market = lastOp.market
        /\ lastOp'.timestamp = lastOp.timestamp
        /\ lastOp'.up_px = lastOp.up_px /\ lastOp'.down_px = lastOp.down_px
        /\ marketParams' = marketParams
        /\ ~decision[lastOp.market].threw /\ ~decision'[lastOp.market].threw) =>
           /\ decision'[lastOp.market].shouldTrade = decision[lastOp.market].shouldTrade
           /\ decision'[lastOp.market].side = decision[lastOp.market].side
           /\ decision'[lastOp.market].shares = decision[lastOp.market].shares
           /\ decision'[lastOp.market].reason = decision[lastOp.market].reason
           /\ SameEntry(decision[lastOp.market], decision'[lastOp.market], "fillPrice")
    ]_vars

\* The market keys a parameter file holds entries for, in either layout.
KeysInFile(f) ==
    IF ~f.exists \/ ~IsObject(f.content) THEN {}
    ELSE IF isNewFormat(f.content.value) THEN DOMAIN f.content.value \cap FileMarketKeys
    ELSE UNION {DOMAIN f.content.value[s].per_market :
                    s \in DOMAIN f.content.value \cap Sections}

NoParamsFor(marketKey) == normalizeMarketKey(marketKey) \notin KeysInFile(file)

\* C15: when no parameters exist for a market (the parameter file is absent,
\* or the normalized market key is not in the file), getMarketParams returns
\* no section, and every shouldTrade tick for that market returns a no-trade
\* decision with reason no_entry_params, whatever the prices and history.
C15_NoParamsNoTrade ==
    /\ \A m \in DOMAIN marketParams : NoParamsFor(m) => marketParams[m] = EmptyObj
    /\ (AfterTick /\ NoParamsFor(lastOp.market)) =>
           /\ ~TickDecision.threw
           /\ ~TickDecision.shouldTrade
           /\ TickDecision.shares = 0
           /\ TickDecision.reason = "no_entry_params"

\* A second tick, at moved prices, of a market whose key the existing file
\* does not list.
C15_Witness ==
    /\ AfterTick
    /\ file.exists /\ KeysInFile(file) # {}
    /\ NoParamsFor(lastOp.market)
    /\ Len(priceHistory[lastOp.market]) >= 2
    /\ lastOp.prevPrice # <<>>
    /\ lastOp.prevPrice[1].up_px # lastOp.up_px

\* C16: every tick whose up_price or down_price lies outside [0, 1] is
\* rejected by the quality filter: shouldTrade returns no-trade with reason
\* data_quality_filter_failed for it.
C16_OutOfRangeRejected ==
    (/\ AfterTick
     /\ \/ lastOp.up_px < 0 \/ lastOp.up_px > 1000
        \/ lastOp.down_px < 0 \/ lastOp.down_px > 1000) =>
        /\ ~TickDecision.shouldTrade
        /\ TickDecision.reason = "data_quality_filter_failed"

\* C17: entrySignal signals a side only if that side's price band is
\* configured (min and max both non-null) and contains the side's price
\* inclusively: with mode none an UP band containing up gives (true, UP,
\* up_price_band); when only the DOWN band is configured and contains down it
\* gives (true, DOWN, down_price_band); when no configured band contains its
\* price it gives (false, null, no_band_match).
C17_SignalOnlyInBand ==
    (lastOp.op = "entrySignal" /\ lastOp.entryParams # <<>>) =>
        \E ep \in {lastOp.entryParams[1]},
           upIn \in {InBand(lastOp.state.up_px, lastOp.entryParams[1].up_price_min,
                            lastOp.entryParams[1].up_price_max)},
           downIn \in {InBand(lastOp.state.down_px, lastOp.entryParams[1].down_price_min,
                              lastOp.entryParams[1].down_price_max)} :
            /\ lastOp.result.side = "UP" => upIn
            /\ lastOp.result.side = "DOWN" => downIn
            /\ (ep.mode = "none" /\ upIn) =>
                   lastOp.result = [should_trade |-> TRUE, side |-> "UP",
                                    reason |-> "up_price_band"]
            /\ (ep.mode = "none" /\ ep.up_price_min = NULL /\ ep.up_price_max = NULL
                    /\ downIn) =>
                   lastOp.result = [should_trade |-> TRUE, side |-> "DOWN",
                                    reason |-> "down_price_band"]
            /\ (~upIn /\ ~downIn) =>
                   lastOp.result = [should_trade |-> FALSE, side |-> "null",
                                    reason |-> "no_band_match"]

\* The shares held on the proposed side, and that side's cap.
ProposedShares(call) ==
    IF call.proposedSide = "UP" THEN call.inventory.inv_up_shares
    ELSE call.inventory.inv_down_shares

ProposedCap(call) ==
    IF call.proposedSide = "UP" THEN call.inventoryParams[1].max_up_shares
    ELSE call.inventoryParams[1].max_down_shares

ProposedDominant(call) ==
    /\ call.inventoryParams # <<>>
    /\ call.inventory.inv_up_shares > 0 /\ call.inventory.inv_down_shares > 0
    /\ ProposedShares(call) * 1000
           > call.inventoryParams[1].rebalance_ratio_R
               * (call.inventory.inv_up_shares + call.inventory.inv_down_shares)

OppositeSide(call) == IF call.proposedSide = "UP" THEN "DOWN" ELSE "UP"

OppositeBelowCap(call) ==
    IF call.proposedSide = "UP"
    THEN call.inventory.inv_down_shares < call.inventoryParams[1].max_down_shares
    ELSE call.inventory.inv_up_shares < call.inventoryParams[1].max_up_shares

\* C19: when both sides hold inventory and the UP fraction
\* inv_up / (inv_up + inv_down) exceeds rebalance_ratio_R,
\* inventoryOkAndRebalance turns a proposed UP into DOWN (symmetrically, a
\* proposed DOWN into UP when the DOWN fraction exceeds R), provided the
\* opposite side is below its cap; if the opposite side is at its cap the
\* result is null.
C19_RebalanceFlips ==
    (lastOp.op = "inventoryOkAndRebalance" /\ ProposedDominant(lastOp)) =>
        lastOp.result = IF OppositeBelowCap(lastOp) THEN OppositeSide(lastOp) ELSE "null"

ValidEdges(binEdges) ==
    /\ Len(binEdges) >= 2
    /\ \A i \in 1..(Len(binEdges) - 1) : binEdges[i] < binEdges[i + 1]

\* A recorded sizeForTrade call on size parameters with valid bin edges.
SizeCallDone ==
    /\ lastOp.op = "sizeForTrade"
    /\ lastOp.sizeParams # <<>>
    /\ ValidEdges(lastOp.sizeParams[1].bin_edges)
CallEdges == lastOp.sizeParams[1].bin_edges
CallSidePx == IF lastOp.side = "UP" THEN lastOp.state.up_px ELSE lastOp.state.down_px

\* C21: sizeForTrade selects the price bucket index i with side_price in
\* (bin_edges[i], bin_edges[i+1]]: a price exactly equal to an interior edge
\* bin_edges[i] falls in bucket i-1, a price at or below bin_edges[0] falls in
\* bucket 0, and a price above the last edge falls in the last bucket.
C21_RightClosedBuckets ==
    SizeCallDone =>
        /\ lastOp.priceBucketIndex \in 0..(Len(CallEdges) - 2)
        /\ (CallSidePx > CallEdges[1] /\ CallSidePx <= CallEdges[Len(CallEdges)]) =>
               /\ CallSidePx > Edge(CallEdges, lastOp.priceBucketIndex)
               /\ CallSidePx <= Edge(CallEdges, lastOp.priceBucketIndex + 1)
        /\ \A i \in 1..(Len(CallEdges) - 2) :
               CallSidePx = Edge(CallEdges, i) => lastOp.priceBucketIndex = i - 1
        /\ CallSidePx <= CallEdges[1] => lastOp.priceBucketIndex = 0
        /\ CallSidePx > CallEdges[Len(CallEdges)] =>
               lastOp.priceBucketIndex = Len(CallEdges) - 2

\* A price exactly on the second interior edge of four, put in bucket 1.
C21_Witness ==
    /\ SizeCallDone
    /\ Len(CallEdges) = 4
    /\ CallSidePx = Edge(CallEdges, 2)
    /\ lastOp.priceBucketIndex = 1

\* The tables and the conditioning variable of the recorded call.
CallTable1d == TableOf(lastOp.sizeParams[1], "size_table_1d")
CallTable == TableOf(lastOp.sizeParams[1], "size_table")
CallConditioning ==
    IF Has(lastOp.sizeParams[1], "conditioning_var")
    THEN lastOp.sizeParams[1].conditioning_var ELSE "null"

\* The interval label "(bin_edges[i], bin_edges[i+1]]" of bucket i.
EdgeLabel(i) == <<Edge(CallEdges, i), Edge(CallEdges, i + 1)>>

\* C22: with no conditioning variable and a size table keyed by the interval
\* labels "(bin_edges[i], bin_edges[i+1]]" of consecutive bin edges for every
\* bucket, the first bucket keyed "(bin_edges[0], bin_edges[1]]" included,
\* sizeForTrade returns the table entry of the bucket that contains the
\* side's price (after clamping), for every bucket.
C22_EdgeLabelledTable ==
    (/\ SizeCallDone
     /\ CallConditioning = "null"
     /\ \A i \in 0..(Len(CallEdges) - 2) : EdgeLabel(i) \in DOMAIN CallTable1d) =>
        /\ ~lastOp.result.threw
        /\ lastOp.result.value = CallTable1d[EdgeLabel(lastOp.priceBucketIndex)]

\* A recorded call that conditions on the inventory imbalance ratio with at
\* least two thresholds.
Call2D ==
    /\ SizeCallDone
    /\ CallConditioning = "inventory_imbalance_ratio"
    /\ Has(lastOp.sizeParams[1], "inventory_bucket_thresholds")
    /\ Len(lastOp.sizeParams[1].inventory_bucket_thresholds) >= 2

CallThresholds == lastOp.sizeParams[1].inventory_bucket_thresholds

\* ratio = inv_up / max(inv_down, eps) is at most thresholds[k] (0-based k).
CallRatioLeq(k) ==
    RatioLeq(lastOp.inventory.inv_up_shares, lastOp.inventory.inv_down_shares,
             CallThresholds[k + 1])

\* The smallest i with ratio <= thresholds[i+1], the last bucket if none.
ExpectedInvBucket ==
    IF \E i \in 0..(Len(CallThresholds) - 2) : CallRatioLeq(i + 1)
    THEN CHOOSE i \in 0..(Len(CallThresholds) - 2) :
             /\ CallRatioLeq(i + 1)
             /\ \A j \in 0..(i - 1) : ~CallRatioLeq(j + 1)
    ELSE Len(CallThresholds) - 2

\* inventory_buckets[i], or bucket_i when the list does not name it.
InvLabel(i) ==
    IF /\ Has(lastOp.sizeParams[1], "inventory_buckets")
       /\ i + 1 <= Len(lastOp.sizeParams[1].inventory_buckets)
    THEN lastOp.sizeParams[1].inventory_buckets[i + 1]
    ELSE BucketName(i)

\* "price_label|inv_label" for the price bucket selected and inventory
\* bucket i.
Key2D(i) ==
    <<PriceBucketKey(CallEdges, lastOp.priceBucketIndex)[1],
      PriceBucketKey(CallEdges, lastOp.priceBucketIndex)[2], InvLabel(i)>>

SamePriceLabelKeys ==
    {k \in DOMAIN CallTable :
        /\ Len(k) = 3
        /\ k[1] = Key2D(0)[1] /\ k[2] = Key2D(0)[2]}

CallPriceKey == PriceBucketKey(CallEdges, lastOp.priceBucketIndex)

\* C24: when the 2D key for the selected (price bucket, inventory bucket) is
\* missing from size_table, sizeForTrade falls back in this order: the first
\* entry found for the same price label under another inventory bucket; then
\* size_table_1d[label]; then the median of all sizes in size_table; then the
\* constant 1.0 - each later fallback being used only if all earlier ones
\* are unavailable.
C24_FallbackOrder ==
    (Call2D /\ Key2D(ExpectedInvBucket) \notin DOMAIN CallTable) =>
        /\ ~lastOp.result.threw
        /\ IF SamePriceLabelKeys # {}
           THEN lastOp.result.value \in {CallTable[k] : k \in SamePriceLabelKeys}
           ELSE IF CallPriceKey \in DOMAIN CallTable1d
           THEN lastOp.result.value = CallTable1d[CallPriceKey]
           ELSE IF DOMAIN CallTable # {}
           THEN lastOp.result.value = MedianOf(CallTable)
           ELSE lastOp.result.value = DefaultSize

\* A size in hundred-thousandths of a share, rounded to 4 decimal places.
RoundedTo4(v) == ((v + 5) \div 10) * 10

\* C25: the size returned by sizeForTrade from a size table is rounded to 4
\* decimal places (a table entry 12.123456789 yields 12.1235).  Checked on
\* the table whose sizes are written in hundred-thousandths of a share.
C25_RoundedTo4Decimals ==
    (SizeCallDone /\ CallEdges = <<0, 1000>> /\ CallPriceKey \in DOMAIN CallTable1d) =>
        /\ ~lastOp.result.threw
        /\ lastOp.result.value = RoundedTo4(CallTable1d[CallPriceKey])

\* The letters of a spelling in upper case.
UpperOf(seq) ==
    LET up == ("b" :> "B") @@ ("t" :> "T") @@ ("c" :> "C") @@ ("e" :> "E") @@ ("h" :> "H")
              @@ ("i" :> "I") @@ ("o" :> "O") @@ ("n" :> "N") @@ ("u" :> "U")
              @@ ("r" :> "R") @@ ("m" :> "M") @@ ("p" :> "P") @@ ("w" :> "W")
    IN  [i \in DOMAIN seq |-> IF seq[i] \in DOMAIN up THEN up[seq[i]] ELSE seq[i]]

\* The key a case-insensitive match of the raw identifier resolves to.
CaseInsensitiveKey(marketKey) ==
    LET u == UpperOf(Spelling[marketKey])
        btc == Includes(u, <<"B", "T", "C">>)
               \/ Includes(u, <<"B", "I", "T", "C", "O", "I", "N">>)
        eth == Includes(u, <<"E", "T", "H">>)
        m15 == Includes(u, <<"1", "5">>)
        h1 == Includes(u, <<"1", "H">>) \/ Includes(u, <<"1", " ", "H", "O", "U", "R">>)
    IN  IF marketKey \in FileMarketKeys THEN marketKey
        ELSE IF btc /\ m15 THEN "BTC_15m"
        ELSE IF eth /\ m15 THEN "ETH_15m"
        ELSE IF btc /\ h1 THEN "BTC_1h"
        ELSE IF eth /\ h1 THEN "ETH_1h"
        ELSE marketKey

\* C26: market-key normalization matches case-insensitively: a raw identifier
\* containing BTC or bitcoin in any letter case together with 15 resolves to
\* BTC_15m, with 1h or 1 hour to BTC_1h (analogously for ETH); an input
\* already in canonical form is returned unchanged, and an unmatched input is
\* passed through verbatim.
C26_CaseInsensitiveNormalization ==
    lastOp.op = "normalizeMarketKey" =>
        lastOp.result = CaseInsensitiveKey(lastOp.marketKey)

\* The features of the tick just evaluated, computed on the history that
\* holds it.
TickFeatures ==
    computeFeatures([timestamp |-> lastOp.timestamp, up_px |-> lastOp.up_px,
                     down_px |-> lastOp.down_px, market |-> lastOp.market],
                    priceHistory[lastOp.market])

\* The 5-second delta of the side's own price is known and at least lo.
OwnDeltaAtLeast(side, lo) ==
    /\ Has(TickFeatures, "delta_5s_up_px")
    /\ IF side = "UP" THEN TickFeatures.delta_5s_up_px >= lo
       ELSE TickFeatures.delta_5s_down_px >= lo

OwnDeltaAtMost(side, hi) ==
    /\ Has(TickFeatures, "delta_5s_up_px")
    /\ IF side = "UP" THEN TickFeatures.delta_5s_up_px <= hi
       ELSE TickFeatures.delta_5s_down_px <= hi

\* C27: in momentum mode a trade decision emitted by shouldTrade on side S
\* implies that S's own 5-second delta is >= momentum_threshold, and in
\* reversion mode that it is <= -momentum_threshold; a side whose own delta
\* condition is not met is never traded because the other side's is.
C27_OwnDeltaGatesSide ==
    (/\ AfterTick
     /\ ~TickDecision.threw
     /\ TickDecision.shouldTrade
     /\ Has(marketParams[lastOp.market], "entry_params")) =>
        /\ marketParams[lastOp.market].entry_params.mode = "momentum" =>
               OwnDeltaAtLeast(TickDecision.side,
                               marketParams[lastOp.market].entry_params.momentum_threshold)
        /\ marketParams[lastOp.market].entry_params.mode = "reversion" =>
               OwnDeltaAtMost(TickDecision.side,
                              -marketParams[lastOp.market].entry_params.momentum_threshold)

\* C28: gates account for decisions still in flight: if shouldTrade permits
\* a trade for a market at t1 and a further tick at t2 is evaluated before
\* recordTradeExecution has been called for that trade, the second decision
\* respects min_inter_trade_ms (and the trade limits and inventory caps) as
\* if the first trade had been executed: a tick less than min_inter_trade_ms
\* after a permitted, still unrecorded trade is not permitted.
C28_InFlightTradesCounted ==
    [][(/\ AfterTick
        /\ ~TickDecision.threw /\ TickDecision.shouldTrade
        /\ lastOp'.op = "shouldTrade"
        /\ lastOp'.market = lastOp.market
        /\ Has(marketParams[lastOp.market], "cadence_params")
        /\ marketParams[lastOp.market].cadence_params.min_inter_trade_ms > 0
        /\ lastOp'.timestamp - lastOp.timestamp
               < marketParams[lastOp.market].cadence_params.min_inter_trade_ms) =>
           ~decision'[lastOp.market].shouldTrade
    ]_vars

\* C29: a quality-filter rejection is not sticky: if tick k of a market is
\* rejected by the quality filter, a following tick k+1 whose prices sum to 1
\* within max_price_sum_deviation, whose timestamp is within
\* timestamp_jump_threshold_seconds of tick k and whose prices are within
\* price_gap_threshold of tick k is not rejected by the quality filter.
C29_RejectionNotSticky ==
    [][(/\ AfterTick
        /\ ~lastOp.qualityOk
        /\ lastOp'.op = "shouldTrade"
        /\ lastOp'.market = lastOp.market
        /\ marketParams' = marketParams
        /\ Has(marketParams[lastOp.market], "quality_filter_params")
        /\ Abs(lastOp'.up_px + lastOp'.down_px - 1000)
               <= marketParams[lastOp.market].quality_filter_params.max_price_sum_deviation
        /\ lastOp'.timestamp - lastOp.timestamp
               <= 1000 * marketParams[lastOp.market].quality_filter_params
                             .timestamp_jump_threshold_seconds
        /\ Max(Abs(lastOp'.up_px - lastOp.up_px), Abs(lastOp'.down_px - lastOp.down_px))
               <= marketParams[lastOp.market].quality_filter_params.price_gap_threshold) =>
           /\ lastOp'.qualityOk
           /\ decision'[lastOp.market].reason # "data_quality_filter_failed"
    ]_vars

\* C30: each modification time of the parameter file is processed by at most
\* one poll tick: once a poll has observed modification time m (whether the
\* load succeeded or failed), a later poll that observes the same m does not
\* re-parse the file, does not replace the snapshot, does not log the error
\* again and does not notify listeners again; a poll that observes a
\* modification time not strictly newer leaves the snapshot unchanged.
C30_OncePerModification ==
    [][lastOp'.op = "pollTick" =>
        /\ (lastOp.op = "pollTick" /\ file.exists) =>
               /\ ~lastOp'.newer
               /\ ~lastOp'.loadError
               /\ lastOp'.notified = <<>>
               /\ params' = params
        /\ ~lastOp'.newer => params' = params
    ]_vars

\* What a successful load of the file's present content leaves in the snapshot.
NormalizedFile ==
    validateParams(IF isNewFormat(file.content.value)
                   THEN convertNewToOldFormat(file.content.value)
                   ELSE file.content.value)

\* C31: the loader never records a modification time newer than that of the
\* content it parsed, also when the file is rewritten while a load is in
\* progress: whenever the file holds a loadable document and the recorded
\* modification time is at least the file's (so that no later poll reloads
\* it), the snapshot is the normalized content of the file.
C31_RecordedMtimeIsOfParsedContent ==
    (/\ pollInterval
     /\ file.exists
     /\ IsObject(file.content)
     /\ lastModified >= file.mtimeMs)
        => params = <<NormalizedFile>>

\* The side the default rule of selectSideWhenBothValid picks on the tick just
\* evaluated; shouldTrade leaves the share counts it read in the inventory.
DefaultRuleSide ==
    selectSideWhenBothValid([timestamp |-> lastOp.timestamp, up_px |-> lastOp.up_px,
                             down_px |-> lastOp.down_px, market |-> lastOp.market],
                            TickFeatures, inventory[lastOp.market], <<>>, TRUE, TRUE)

\* C32: when both sides qualify on their entry bands and the market has no
\* side_selection_params, shouldTrade chooses the side by the default
\* inventory-driven rule, the side selectSideWhenBothValid returns for absent
\* parameters: a permitted trade is on that side, as the inventory gate
\* leaves or flips it.
C32_DefaultSideRule ==
    (/\ AfterTick
     /\ lastOp.actualUp
     /\ lastOp.actualDown
     /\ ~Has(marketParams[lastOp.market], "side_selection_params")
     /\ TickDecision.shouldTrade)
        => TickDecision.side =
               inventoryOkAndRebalance(inventory[lastOp.market],
                                       Opt(marketParams[lastOp.market], "inventory_params"),
                                       DefaultRuleSide)

\* The inventory of the market just ticked holds shares on one side only.
OneSidedInventory ==
    \/ inventory[lastOp.market].inv_up_shares > 0 /\ inventory[lastOp.market].inv_down_shares = 0
    \/ inventory[lastOp.market].inv_down_shares > 0 /\ inventory[lastOp.market].inv_up_shares = 0

\* The side on which the market just ticked holds nothing qualifies on its band.
OppositeSideQualifies ==
    IF inventory[lastOp.market].inv_up_shares > 0 THEN lastOp.actualDown ELSE lastOp.actualUp

\* C33: with risk_params.max_imbalance_ratio < 1, holding shares on only one
\* side does not block all further trading: after a first recorded trade on
\* side S, a tick on which the opposite side qualifies and no other gate
\* blocks yields a trade decision.
C33_OneSidedInventoryCanTrade ==
    (/\ AfterTick
     /\ Has(marketParams[lastOp.market], "risk_params")
     /\ marketParams[lastOp.market].risk_params.max_imbalance_ratio < 1000
     /\ marketParams[lastOp.market].risk_params.max_trades_per_session = NULL
     /\ OneSidedInventory
     /\ inventory[lastOp.market].inv_up_shares
            <= marketParams[lastOp.market].risk_params.max_exposure_up_shares
     /\ inventory[lastOp.market].inv_down_shares
            <= marketParams[lastOp.market].risk_params.max_exposure_down_shares
     /\ OppositeSideQualifies
     /\ lastOp.qualityOk /\ lastOp.cooldownOk /\ lastOp.cadenceOk /\ lastOp.entryOk)
        => TickDecision.shouldTrade

\* C34: with has_time_cooldown and time_cooldown_seconds = c, after
\* recordTradeExecution(market, t, ...) for any trade timestamp t >= 0, every
\* shouldTrade tick for that market at t' >= t with (t' - t)/1000 < c returns
\* a no-trade decision (reason cooldown_blocked unless the quality filter
\* rejected the tick first), and a tick with (t' - t)/1000 >= c is not
\* blocked by the time cooldown (the only cooldown rule configured here).
C34_TimeCooldownFromAnyTimestamp ==
    (/\ AfterTick
     /\ Has(marketParams[lastOp.market], "cooldown_params")
     /\ marketParams[lastOp.market].cooldown_params.has_time_cooldown
     /\ marketParams[lastOp.market].cooldown_params.price_move_threshold = NULL
     /\ ~marketParams[lastOp.market].cooldown_params.has_inventory_lockout
     /\ lastOp.market \in DOMAIN lastTradeTime
     /\ lastOp.timestamp >= lastTradeTime[lastOp.market])
        => IF lastOp.timestamp - lastTradeTime[lastOp.market]
                  < marketParams[lastOp.market].cooldown_params.time_cooldown_seconds * 1000
           THEN /\ ~TickDecision.shouldTrade
                /\ (lastOp.qualityOk => TickDecision.reason = "cooldown_blocked")
           ELSE lastOp.cooldownOk

\* The session limit of a market, when its parameters set one.
SessionLimited(m) ==
    /\ Has(marketParams[m], "risk_params")
    /\ marketParams[m].risk_params.max_trades_per_session # NULL

\* C35: with risk_params.max_trades_per_session = M set, and every permitted
\* decision recorded at most once before the next tick, a market's
\* trades_this_session never exceeds M: once M trades have been recorded in
\* a session every further tick returns no-trade, with reason
\* risk_limit_exceeded or the reason of an earlier gate.
C35_SessionTradeLimit ==
    \A m \in LoopMarkets :
        SessionLimited(m) =>
            /\ GetOr(tradesPerSession, m, 0) <= marketParams[m].risk_params.max_trades_per_session
            /\ (/\ AfterTick
                /\ lastOp.market = m
                /\ GetOr(tradesPerSession, m, 0)
                       >= marketParams[m].risk_params.max_trades_per_session)
                   => /\ ~decision[m].shouldTrade
                      /\ decision[m].reason \in
                             {"risk_limit_exceeded", "data_quality_filter_failed",
                              "cooldown_blocked", "cadence_blocked"} \cup EntryNoTradeReasons

\* The second trade of a session of at most two has been recorded and the
\* next tick is refused by the risk limit.
C35_Witness ==
    /\ AfterTick
    /\ SessionLimited(lastOp.market)
    /\ marketParams[lastOp.market].risk_params.max_trades_per_session = 2
    /\ GetOr(tradesPerSession, lastOp.market, 0) = 2
    /\ TickDecision.reason = "risk_limit_exceeded"

\* C36: with side_selection_params.mode = fixed_preference and both sides
\* qualifying, selectSideWhenBothValid returns preferred_side, for every
\* inventory state and every value of the other side-selection fields
\* (including confidence_gap).
C36_FixedPreference ==
    (/\ lastOp.op = "selectSideWhenBothValid"
     /\ lastOp.entrySignalUp /\ lastOp.entrySignalDown
     /\ lastOp.sideSelectionParams # <<>>
     /\ lastOp.sideSelectionParams[1].mode = "fixed_preference")
        => lastOp.result = lastOp.sideSelectionParams[1].preferred_side

\* The sections the file defines for a market key, in either layout, with
\* their content.
FileSectionsOf(marketKey) ==
    IF normalizeMarketKey(marketKey) \notin KeysInFile(file) THEN EmptyObj
    ELSE IF isNewFormat(file.content.value)
    THEN [s \in DOMAIN file.content.value[normalizeMarketKey(marketKey)] |->
             file.content.value[normalizeMarketKey(marketKey)][s]]
    ELSE [s \in {x \in DOMAIN file.content.value :
                    normalizeMarketKey(marketKey) \in DOMAIN file.content.value[x].per_market}
             |-> file.content.value[s].per_market[normalizeMarketKey(marketKey)]]

\* C37: for a parameter file (in either layout) that defines a section for a
\* market (entry, size, inventory, cadence, side_selection, execution,
\* cooldown, risk, quality_filter or reset params), getMarketParams(market)
\* returns that section, so that the settings configured in the file are
\* the ones shouldTrade is given.
C37_EverySectionReturned ==
    \A m \in DOMAIN marketParams :
        \A s \in DOMAIN FileSectionsOf(m) :
            /\ Has(marketParams[m], s)
            /\ marketParams[m][s] = FileSectionsOf(m)[s]

\* C38: when a market's bin_edges has fewer than 2 entries or is not strictly
\* increasing, sizing for that market uses the default share: sizeForTrade
\* returns 1.0 for every price and inventory.
C38_InvalidEdgesDefaultSize ==
    (/\ lastOp.op = "sizeForTrade"
     /\ lastOp.sizeParams # <<>>
     /\ ~ValidEdges(lastOp.sizeParams[1].bin_edges))
        => lastOp.result = Returned(DefaultSize)

\* C39: eviction from the recent-trade ring (capacity 100) never removes a
\* timestamp that still lies within the 60-second cadence window of a later
\* tick: for every market the counts cadenceOk computes over [now-1000, now]
\* and [now-60000, now] on the ring equal the number of trades recorded in
\* those windows.
C39_RingCountsAreTrue ==
    \A m \in DOMAIN allTrades :
        /\ CountInWindow(GetOr(recentTradeTimes, m, <<>>), now - 1000, now)
               = CountInWindow(allTrades[m], now - 1000, now)
        /\ CountInWindow(GetOr(recentTradeTimes, m, <<>>), now - 60000, now)
               = CountInWindow(allTrades[m], now - 60000, now)

\* seq with x added at its end, the oldest entry gone if seq was full.
OldestEvicted(seq, x, capacity) ==
    IF Len(seq) < capacity THEN Append(seq, x) ELSE Tail(seq) \o <<x>>

\* C40: after any sequence of ticks and executions, each market's price
\* history holds at most N_hist (1000) entries and its recent-trade sequence
\* at most N_rec (100) entries, both in arrival order, and when a sequence is
\* full a new entry evicts exactly the oldest one.
C40_BoundedOldestEvicted ==
    /\ [](/\ \A m \in DOMAIN priceHistory : Len(priceHistory[m]) <= maxHistoryLength
          /\ \A m \in DOMAIN recentTradeTimes :
                 Len(recentTradeTimes[m]) <= maxRecentTrades)
    /\ [][(lastOp'.op = "shouldTrade" =>
              priceHistory'[lastOp'.market] =
                  OldestEvicted(GetOr(priceHistory, lastOp'.market, <<>>),
                                [timestamp |-> lastOp'.timestamp, up_px |-> lastOp'.up_px,
                                 down_px |-> lastOp'.down_px],
                                maxHistoryLength))
           /\
           (lastOp'.op = "recordTradeExecution" =>
              recentTradeTimes'[lastOp'.market] =
                  OldestEvicted(GetOr(recentTradeTimes, lastOp'.market, <<>>),
                                lastOp'.timestamp, maxRecentTrades))
       ]_vars

\* Both sequences are full and have evicted: more ticks than the history
\* holds have been made and more trades recorded than the list holds.
C40_Witness ==
    /\ lastOp.op = "recordTradeExecution"
    /\ Len(recentTradeTimes[lastOp.market]) = maxRecentTrades
    /\ Len(allTrades[lastOp.market]) > maxRecentTrades
    /\ Len(priceHistory[lastOp.market]) = maxHistoryLength
    /\ decisionIdCounter > maxHistoryLength
====
